---- MODULE Spec2Model ----
(***************************************************************************)
(* Party Mode core of Rose: UDP transport, peer connection state machine,  *)
(* skin collector and party manager (src/party).                           *)
(*                                                                         *)
(* Every node runs one PartyManager on one asyncio event loop.  An action  *)
(* is the code a coroutine runs between two suspension points.             *)
(* Datagrams in flight are the set net; a datagram is delivered when the   *)
(* receive loop of its destination takes it.                               *)
(***************************************************************************)
EXTENDS Integers, Sequences, FiniteSets, TLC

(***************************************************************************)
(* Bounds of the model.                                                    *)
(***************************************************************************)
MaxQueue == 3        \* datagrams held by _pending_receives
MaxAttempts == 2     \* max_attempts argument of hole_punch
MaxResend == 1       \* HELLO resends of one handshake
MaxConns == 2        \* PeerConnection objects created per node
MaxEnables == 1      \* enable() calls that get as far as generating a key
MaxConcurrent == 1   \* enable() calls made while an earlier one is in discover()
MaxClock == 4        \* clock steps taken after StartTime
MaxSeq == 3          \* sequence numbers a connection uses while its peer sends

(***************************************************************************)
(* Program constants.                                                      *)
(***************************************************************************)
HANDSHAKE_TIMEOUT == 10
PING_INTERVAL == 15
DEAD_TIMEOUT == 45
TOKEN_VERSION == 1
TOKEN_EXPIRY_SECONDS == 3600
KEY_SIZE == 32
SEQ_MOD == 65536
UNSET_PING_SEQ == 0 - 1

\* the clock moves by one keep-alive interval
TimeStep == PING_INTERVAL

None == "None"
Unknown == "Unknown"

Nodes == {"A", "B"}
Other(n) == IF n = "A" THEN "B" ELSE "A"

\* lcu.current_summoner of each node
SidOf(n) == IF n = "A" THEN 1 ELSE 2
NameOf(n) == IF n = "A" THEN "Alice" ELSE "Bob"
Sids == {1, 2, 3}

\* the (ip, port) a node's socket is reachable at
\* the g-th UDPTransport a node creates binds a port of its own
Gens == 1 .. (MaxEnables + MaxConcurrent)
PortOf(n, g) == (IF n = "A" THEN 40000 ELSE 50000) + g
Addr(n, g) == <<n, PortOf(n, g)>>
\* two addresses no node of the model is bound to: the LAN address a token
\* may name, and the address of a third summoner
LanAddr == <<"L", PortOf("B", 1)>>
ThirdAddr == <<"C", PortOf("B", 1)>>
AllAddrs == {Addr(n, g) : n \in Nodes, g \in Gens} \cup {LanAddr, ThirdAddr}
NoIp == "0.0.0.0"
NoAddr == <<NoIp, 0>>

\* PartyCrypto.generate_key of the g-th enable of a node; the last key id is
\* a key no node of the model generated
ForeignKey == 2 * MaxEnables + 1
KeyOf(n, g) ==
    IF g <= MaxEnables THEN (IF n = "A" THEN 0 ELSE MaxEnables) + g
    ELSE ForeignKey + (IF n = "A" THEN 0 ELSE MaxConcurrent) + (g - MaxEnables)

StartTime == TOKEN_EXPIRY_SECONDS + DEAD_TIMEOUT

(***************************************************************************)
(* protocol/crypto.py                                                      *)
(***************************************************************************)
RECURSIVE BitXor(_, _, _)
BitXor(a, b, bits) ==
    IF bits = 0 THEN 0
    ELSE (((a % 2) + (b % 2)) % 2) + 2 * BitXor(a \div 2, b \div 2, bits - 1)

Xor8(a, b) == BitXor(a, b, 8)

\* the keys os.urandom hands out, by key id
KeyIds == 1 .. ForeignKey
KeyBytes(id) == [i \in 1 .. KEY_SIZE |-> ((id * 37) + (i * 11) + ((id * i) % 7)) % 256]

\* the mixing loop of derive_shared_key, in place, index i is 0-based
RECURSIVE MixFrom(_, _)
MixFrom(result, i) ==
    IF i >= Len(result) THEN result
    ELSE LET added == (result[i + 1] + i + 90) % 256
             j == (i + 1) % Len(result)
             nxt == IF j = i THEN added ELSE result[j + 1]
         IN  MixFrom([result EXCEPT ![i + 1] = Xor8(added, nxt)], i + 1)

\* a derivation that mixes in the caller's own key once more
derive_shared_key_own(my_key, peer_key) ==
    IF Len(my_key) # KEY_SIZE \/ Len(peer_key) # KEY_SIZE THEN None
    ELSE MixFrom([i \in 1 .. KEY_SIZE |-> Xor8((my_key[i] + i) % 256, peer_key[i])], 0)

derive_shared_key(my_key, peer_key) ==
    IF Len(my_key) # KEY_SIZE \/ Len(peer_key) # KEY_SIZE THEN None
    ELSE MixFrom([i \in 1 .. KEY_SIZE |-> Xor8(my_key[i], peer_key[i])], 0)

\* derive_shared_key over the keys of the model, computed once
SharedKeyTable ==
    [a \in KeyIds |-> [b \in KeyIds |-> derive_shared_key(KeyBytes(a), KeyBytes(b))]]

\* PartyCrypto(shared_key) of a connection: the two halves it was derived from
\* and the cipher the importing process selected (HAS_CRYPTOGRAPHY)
PartyCrypto(my_key, peer_key, has_lib) ==
    [mine |-> my_key, peer |-> peer_key, fmt |-> IF has_lib THEN "aesgcm" ELSE "xor"]

NoCrypto == [mine |-> 0, peer |-> 0, fmt |-> None]

CryptoKey(crypto) == SharedKeyTable[crypto.mine][crypto.peer]

(***************************************************************************)
(* protocol/message_types.py                                               *)
(***************************************************************************)
MessageType == {"ping", "pong", "hello", "hello_ack", "skin_update", "skin_sync",
                "skin_clear", "lobby_info", "lobby_match", "ready", "error"}

NoSelection == [summoner_id |-> 0, summoner_name |-> None, champion_id |-> 0,
                skin_id |-> 0, chroma_id |-> 0]

SkinSelection(sid, name, champ, skin, chroma) ==
    [summoner_id |-> sid, summoner_name |-> name, champion_id |-> champ,
     skin_id |-> skin, chroma_id |-> chroma]

\* Message(type, payload, sequence); the payload of every type is carried in
\* the fields of one selection record plus the lobby fields
Message(type, payload) ==
    [type |-> type, payload |-> payload, sequence |-> 0, matched |-> FALSE,
     lobby_summoner_ids |-> {}]

create_hello(sid, name) == Message("hello", SkinSelection(sid, name, 0, 0, 0))
create_hello_ack(sid, name) == Message("hello_ack", SkinSelection(sid, name, 0, 0, 0))
create_ping(sequence) == [Message("ping", NoSelection) EXCEPT !.sequence = sequence]
create_pong(sequence) == [Message("pong", NoSelection) EXCEPT !.sequence = sequence]
create_skin_update(selection) == Message("skin_update", selection)
create_lobby_info(sid, lobby_summoner_ids) ==
    [Message("lobby_info", SkinSelection(sid, None, 0, 0, 0))
       EXCEPT !.lobby_summoner_ids = lobby_summoner_ids]

\* SkinSelection.from_dict raises KeyError when a required key is missing
from_dict_ok(payload) ==
    /\ payload.summoner_id # 0
    /\ payload.champion_id # 0
    /\ payload.skin_id # 0

(***************************************************************************)
(* Datagrams.  body is one of                                              *)
(*   punch : the literal PUNCH:<summoner_id> probe; hops is not on the     *)
(*           wire, it tells a probe (0) and the reply to it (1) from the   *)
(*           replies to replies that follow (2)                            *)
(*   enc   : PartyCrypto.encrypt(msg.to_bytes()), wellformed says whether  *)
(*           the plaintext is the JSON of a Message                        *)
(***************************************************************************)
Punch(sid) ==
    [kind |-> "punch", tag |-> sid, hops |-> 0, fmt |-> None, key |-> <<0, 0>>,
     wellformed |-> FALSE, msg |-> Message("error", NoSelection)]

Replied(data) == [data EXCEPT !.hops = IF @ < 2 THEN @ + 1 ELSE @]

encrypt(crypto, msg) ==
    [kind |-> "enc", tag |-> 0, hops |-> 0, fmt |-> crypto.fmt,
     key |-> <<crypto.mine, crypto.peer>>,
     wellformed |-> TRUE, msg |-> msg]

\* decrypt: AESGCM authenticates, the fallback compares the keyed checksum;
\* a datagram of the other cipher, of another key, or too short fails
decrypt_ok(crypto, data) ==
    /\ data.kind = "enc"
    /\ data.fmt = crypto.fmt
    /\ SharedKeyTable[data.key[1]][data.key[2]] = CryptoKey(crypto)

\* Message.from_bytes
from_bytes_ok(data) == data.wellformed /\ data.msg.type \in MessageType

startswith_PUNCH(data) == data.kind = "punch"

Datagram(src, dst, data) == [src |-> src, dst |-> dst, data |-> data]

(***************************************************************************)
(* protocol/token_codec.py.  A token string is its wire layers: whether    *)
(* the text is valid base64, whether that inflates, how many bytes it      *)
(* inflates to, and the fields packed in them.                             *)
(***************************************************************************)
TOKEN_BYTES == 57

PartyToken(sid, ext, int_ip, int_port, key, timestamp) ==
    [version |-> TOKEN_VERSION, timestamp |-> timestamp, summoner_id |-> sid,
     external_ip |-> ext[1], external_port |-> ext[2],
     internal_ip |-> int_ip, internal_port |-> int_port,
     encryption_key |-> key]

NoToken == PartyToken(0, NoAddr, NoIp, 0, 0, 0)

NoTokenStr == [base64 |-> FALSE, deflate |-> FALSE, length |-> 0, fields |-> NoToken]

encode(token) ==
    [base64 |-> TRUE, deflate |-> TRUE, length |-> TOKEN_BYTES, fields |-> token]

\* the comparison with its two sides exchanged
is_expired_swapped(token, time) == token.timestamp > time + TOKEN_EXPIRY_SECONDS

is_expired(token, time) == time > token.timestamp + TOKEN_EXPIRY_SECONDS

\* PartyToken.decode: TRUE when it raises ValueError
decode_raises(token_str, time) ==
    \/ ~token_str.base64
    \/ ~token_str.deflate
    \/ token_str.length < TOKEN_BYTES
    \/ token_str.fields.version # TOKEN_VERSION
    \/ is_expired(token_str.fields, time)

decode(token_str) == token_str.fields

\* a candidate list that names the internal address whatever it is
get_addresses_both(token) ==
    << <<token.external_ip, token.external_port>>,
       <<token.internal_ip, token.internal_port>> >>

\* PeerEndpoint.get_addresses
get_addresses(token) ==
    LET ext == <<<<token.external_ip, token.external_port>>>>
    IN  IF /\ token.internal_ip # NoIp
           /\ token.internal_ip # token.external_ip
        THEN ext \o <<<<token.internal_ip, token.internal_port>>>>
        ELSE ext

(***************************************************************************)
(* State.                                                                  *)
(***************************************************************************)
VARIABLES
    now,               \* time.time()
    net,               \* datagrams in flight
    has_cryptography,  \* crypto.HAS_CRYPTOGRAPHY of each node's process
    lcu,               \* what LCU and SharedState report at each node
    party_state,       \* PartyManager.party_state
    manager,           \* the other fields of PartyManager
    transports,        \* the UDPTransport objects each node created
    conns,             \* the PeerConnection objects each node created
    calls,             \* the manager coroutines in progress at each node
    ui,                \* what _on_state_change last showed the UI
    wire,              \* the encrypted datagram each node last gave to sock_sendto
    codec              \* the call into protocol/crypto.py or token_codec.py under test

vars == <<now, net, has_cryptography, lcu, party_state, manager, transports,
          conns, calls, ui, wire, codec>>

ConnIds == 1 .. MaxConns

NoPeerState == [present |-> FALSE, summoner_name |-> Unknown, connected |-> FALSE,
                in_lobby |-> FALSE, skin_selection |-> NoSelection]

NoPartyState == [enabled |-> FALSE, my_token |-> NoTokenStr, my_summoner_id |-> 0,
                 my_summoner_name |-> Unknown, peers |-> [s \in Sids |-> NoPeerState]]

NoManager == [_my_key |-> 0, _my_token |-> NoToken, _transport |-> 0,
              _peers |-> [s \in Sids |-> 0], _running |-> FALSE,
              _lobby_check_task |-> None, _skin_broadcast_task |-> None,
              _selections |-> [s \in Sids |-> NoSelection],
              last_skin_id |-> 0, last_chroma_id |-> 0,
              made |-> 0, conns_made |-> 0,
              \* pairs of loop tasks that run and that the manager lost hold of
              orphaned |-> 0]

NoTransport == [_socket |-> FALSE, _bound |-> FALSE, _running |-> FALSE,
                _receive_task |-> None,
                _handlers |-> [a \in AllAddrs |-> 0],
                _pending_receives |-> <<>>,
                \* destinations the OS refuses in sock_sendto (OSError)
                unreachable |-> {}]

NoConn == [exists |-> FALSE, token |-> NoToken, transport |-> 0,
           my_summoner_id |-> 0, my_summoner_name |-> Unknown, my_key |-> 0,
           summoner_name |-> Unknown, connected_at |-> 0, last_seen |-> 0,
           in_lobby |-> FALSE, skin_selection |-> NoSelection,
           state |-> "disconnected", _remote_addr |-> NoAddr, _crypto |-> NoCrypto,
           _sequence |-> 0, _last_ping_time |-> 0, _last_pong_time |-> 0,
           _pending_ping_seq |-> UNSET_PING_SEQ,
           _keepalive_task |-> None, _running |-> FALSE, wake |-> 0]

NoCall == [pc |-> "idle", conn |-> 0, token |-> NoToken, addr |-> 1, attempt |-> 0,
           resends |-> 0, start |-> 0, todo |-> <<>>, gen |-> 0,
           result |-> None, line |-> 0, ret |-> NoTokenStr, blocked |-> FALSE,
           concurrent |-> FALSE, began |-> 0, summoner_id |-> 0, used |-> 0,
           targets |-> {}, tried |-> {}, selection |-> NoSelection,
           interrupts |-> FALSE]

NoCalls == [add_peer |-> NoCall, enable |-> NoCall, disable |-> NoCall,
            remove_peer |-> NoCall, broadcast_skin_update |-> NoCall,
            enable_again |-> NoCall, add_peer_other |-> NoCall]

\* no codec call is being looked at
NoCodec == [op |-> None]

NoUi == [enabled |-> FALSE, connected |-> {}, peers |-> {}]

(***************************************************************************)
(* The code of one action runs on a copy w of the state, statement by      *)
(* statement; raised is set when the statement just run raised.            *)
(***************************************************************************)
World ==
    [net |-> net, party_state |-> party_state, manager |-> manager,
     transports |-> transports, conns |-> conns, ui |-> ui, wire |-> wire,
     raised |-> FALSE]

Commit(w) ==
    /\ net' = w.net
    /\ party_state' = w.party_state
    /\ manager' = w.manager
    /\ transports' = w.transports
    /\ conns' = w.conns
    /\ ui' = w.ui
    /\ wire' = w.wire

(***************************************************************************)
(* core/party_state.py                                                     *)
(***************************************************************************)
ps_add_peer(w, n, sid) ==
    [w EXCEPT !.party_state[n].peers[sid] =
        IF @.present
        THEN [@ EXCEPT !.summoner_name = Unknown, !.connected = FALSE]
        ELSE [NoPeerState EXCEPT !.present = TRUE]]

ps_remove_peer(w, n, sid) ==
    [w EXCEPT !.party_state[n].peers[sid] = NoPeerState]

update_peer_connection(w, n, sid, connected) ==
    IF w.party_state[n].peers[sid].present
    THEN [w EXCEPT !.party_state[n].peers[sid].connected = connected]
    ELSE w

update_peer_lobby_status(w, n, sid, in_lobby) ==
    IF w.party_state[n].peers[sid].present
    THEN [w EXCEPT !.party_state[n].peers[sid].in_lobby = in_lobby]
    ELSE w

update_peer_skin(w, n, sid, selection) ==
    IF w.party_state[n].peers[sid].present
    THEN [w EXCEPT !.party_state[n].peers[sid].skin_selection = selection]
    ELSE w

get_connected_peers(ps) == {s \in Sids : ps.peers[s].present /\ ps.peers[s].connected}

clear_all(w, n) ==
    [w EXCEPT !.party_state[n].enabled = FALSE,
              !.party_state[n].my_token = NoTokenStr,
              !.party_state[n].peers = [s \in Sids |-> NoPeerState]]

\* PartyState.to_dict as PartyUIBridge._broadcast_state sends it
to_dict(ps) ==
    [enabled |-> ps.enabled,
     peers |-> {s \in Sids : ps.peers[s].present},
     connected |-> {s \in Sids : ps.peers[s].present /\ ps.peers[s].connected}]

(***************************************************************************)
(* core/party_manager.py: the callbacks a PeerConnection calls             *)
(***************************************************************************)
_notify_state_change(w, n) == [w EXCEPT !.ui[n] = to_dict(w.party_state[n])]

_handle_peer_state_change(w, n, sid, state) ==
    LET w1 == IF state = "connected" THEN update_peer_connection(w, n, sid, TRUE)
              ELSE IF state \in {"disconnected", "dead"}
                   THEN update_peer_connection(w, n, sid, FALSE)
                   ELSE w
    IN  _notify_state_change(w1, n)

\* SkinCollector.update_from_peer files the selection under the id it carries
update_from_peer(w, n, selection) ==
    [w EXCEPT !.manager[n]._selections[selection.summoner_id] = selection]

_handle_peer_skin_update(w, n, sid, selection) ==
    _notify_state_change(
        update_from_peer(update_peer_skin(w, n, sid, selection), n, selection), n)

\* LobbyMatcher.get_all_summoner_ids
get_all_summoner_ids(n) == lcu[n].lobby_ids

_handle_peer_message(w, n, sid, msg) ==
    IF /\ msg.type = "lobby_info"
       /\ (msg.lobby_summoner_ids \cap get_all_summoner_ids(n)) # {}
    THEN update_peer_lobby_status(w, n, sid, TRUE)
    ELSE w

(***************************************************************************)
(* network/udp_transport.py                                                *)
(***************************************************************************)
\* the socket, if any, that is bound to addr
SocketAt(w, addr) ==
    \E n \in Nodes, g \in Gens : Addr(n, g) = addr /\ w.transports[n][g]._socket

\* UDPTransport.send on the g-th transport of n; a datagram for an address
\* nobody is bound to is discarded by the network
transport_send(w, n, g, data, addr) ==
    IF ~w.transports[n][g]._socket THEN [w EXCEPT !.raised = TRUE]
    ELSE IF addr \in w.transports[n][g].unreachable THEN [w EXCEPT !.raised = TRUE]
    ELSE LET d == Datagram(Addr(n, g), addr, data)
         IN  [w EXCEPT !.net = IF SocketAt(w, addr) THEN @ \cup {d} ELSE @,
                       !.wire[n] = IF startswith_PUNCH(data) THEN @ ELSE d]

set_handler(w, n, g, addr, c) == [w EXCEPT !.transports[n][g]._handlers[addr] = c]

remove_handler(w, n, g, addr) ==
    IF addr \in AllAddrs
    THEN [w EXCEPT !.transports[n][g]._handlers[addr] = 0]
    ELSE w

(***************************************************************************)
(* network/peer_connection.py                                              *)
(***************************************************************************)
_set_state(w, n, c, new_state) ==
    IF w.conns[n][c].state # new_state
    THEN _handle_peer_state_change(
             [w EXCEPT !.conns[n][c].state = new_state],
             n, w.conns[n][c].token.summoner_id, new_state)
    ELSE w

\* a counter that is never reduced modulo SEQ_MOD
_next_sequence_unbounded(sequence) == sequence + 1

_next_sequence(sequence) == (sequence + 1) % SEQ_MOD

send_message(w, n, c, msg) ==
    LET cn == w.conns[n][c]
        seq == _next_sequence(cn._sequence)
    IN  IF cn._remote_addr = NoAddr \/ cn._crypto = NoCrypto
        THEN [w EXCEPT !.raised = TRUE]
        ELSE transport_send([w EXCEPT !.conns[n][c]._sequence = seq],
                            n, cn.transport,
                            encrypt(cn._crypto, [msg EXCEPT !.sequence = seq]),
                            cn._remote_addr)

\* _send_pong, the task _handle_message creates for a PING; it logs what
\* send_message raises
_send_pong(w, n, c, sequence) ==
    [send_message(w, n, c, create_pong(sequence)) EXCEPT !.raised = FALSE]

\* a handler that keeps the first selection a peer sent
_handle_message_first_wins(w, n, c, msg) ==
    LET sid == w.conns[n][c].token.summoner_id
        w0 == [w EXCEPT !.conns[n][c].last_seen = now]
        w1 == CASE msg.type = "ping" -> _send_pong(w0, n, c, msg.sequence)
                [] msg.type = "pong" ->
                     IF msg.sequence = w0.conns[n][c]._pending_ping_seq
                     THEN [w0 EXCEPT !.conns[n][c]._last_pong_time = now,
                                     !.conns[n][c]._pending_ping_seq = UNSET_PING_SEQ]
                     ELSE w0
                [] msg.type = "skin_update" ->
                     IF from_dict_ok(msg.payload) /\ w0.conns[n][c].skin_selection = NoSelection
                     THEN _handle_peer_skin_update(
                              [w0 EXCEPT !.conns[n][c].skin_selection = msg.payload],
                              n, sid, msg.payload)
                     ELSE w0
                [] msg.type = "skin_clear" ->
                     [w0 EXCEPT !.conns[n][c].skin_selection = NoSelection]
                [] msg.type = "lobby_match" ->
                     [w0 EXCEPT !.conns[n][c].in_lobby = msg.matched]
                [] OTHER -> w0
    IN  _handle_peer_message(w1, n, sid, msg)

_handle_message(w, n, c, msg) ==
    LET sid == w.conns[n][c].token.summoner_id
        w0 == [w EXCEPT !.conns[n][c].last_seen = now]
        w1 == CASE msg.type = "ping" -> _send_pong(w0, n, c, msg.sequence)
                [] msg.type = "pong" ->
                     IF msg.sequence = w0.conns[n][c]._pending_ping_seq
                     THEN [w0 EXCEPT !.conns[n][c]._last_pong_time = now,
                                     !.conns[n][c]._pending_ping_seq = UNSET_PING_SEQ]
                     ELSE w0
                [] msg.type = "skin_update" ->
                     IF from_dict_ok(msg.payload)
                     THEN _handle_peer_skin_update(
                              [w0 EXCEPT !.conns[n][c].skin_selection = msg.payload],
                              n, sid, msg.payload)
                     ELSE w0
                [] msg.type = "skin_clear" ->
                     [w0 EXCEPT !.conns[n][c].skin_selection = NoSelection]
                [] msg.type = "lobby_match" ->
                     [w0 EXCEPT !.conns[n][c].in_lobby = msg.matched]
                [] OTHER -> w0
    IN  _handle_peer_message(w1, n, sid, msg)

\* a handler that notes the time of arrival before it tries to decrypt
_handle_packet_stamping(w, n, c, data) ==
    LET w1 == [w EXCEPT !.conns[n][c].last_seen = now]
    IN  IF w.conns[n][c]._crypto = NoCrypto THEN w
        ELSE IF ~decrypt_ok(w.conns[n][c]._crypto, data) THEN w1
        ELSE IF ~from_bytes_ok(data) THEN w1
        ELSE _handle_message(w, n, c, data.msg)

_handle_packet(w, n, c, data) ==
    IF w.conns[n][c]._crypto = NoCrypto THEN w
    ELSE IF ~decrypt_ok(w.conns[n][c]._crypto, data) THEN w
    ELSE IF ~from_bytes_ok(data) THEN w
    ELSE _handle_message(w, n, c, data.msg)

\* disconnect() from its first statement to the await of the cancelled task
disconnect_begin(w, n, c) ==
    [w EXCEPT !.conns[n][c]._running = FALSE,
              !.conns[n][c]._keepalive_task =
                  IF @ = "running" THEN "cancelled" ELSE @]

\* the await in disconnect() suspends while the keep-alive task has not ended
disconnect_suspends(w, n, c) == w.conns[n][c]._keepalive_task \in {"running", "cancelled"}

\* a disconnect() that leaves its handler on the transport
disconnect_end_keeping_handler(w, n, c) ==
    _set_state([w EXCEPT !.conns[n][c]._keepalive_task = None], n, c, "disconnected")

\* disconnect() from that await to its end; the cancelled task has ended
disconnect_end(w, n, c) ==
    LET cn == w.conns[n][c]
        w1 == [w EXCEPT !.conns[n][c]._keepalive_task = None]
        w2 == IF cn._remote_addr # NoAddr
              THEN remove_handler(w1, n, cn.transport, cn._remote_addr)
              ELSE w1
    IN  _set_state(w2, n, c, "disconnected")

(***************************************************************************)
(* UDPTransport._receive_loop: one datagram                                *)
(***************************************************************************)
QueueItem(data, addr) == [data |-> data, addr |-> addr]

_receive_loop(n, g, d) ==
    /\ transports[n][g]._receive_task = "running"
    /\ transports[n][g]._socket
    /\ d \in net
    /\ d.dst = Addr(n, g)
    /\ LET w0 == [World EXCEPT !.net = @ \ {d}]
           \* reply to PUNCH; a failed reply is logged
           w1 == IF startswith_PUNCH(d.data)
                 THEN [transport_send(w0, n, g, Replied(d.data), d.src)
                         EXCEPT !.raised = FALSE]
                 ELSE w0
           handler == w1.transports[n][g]._handlers[d.src]
       IN  IF handler # 0
           THEN Commit(_handle_packet(w1, n, handler, d.data))
           ELSE /\ Len(transports[n][g]._pending_receives) < MaxQueue
                /\ Commit([w1 EXCEPT !.transports[n][g]._pending_receives =
                                         Append(@, QueueItem(d.data, d.src))])
    /\ UNCHANGED <<now, has_cryptography, codec, lcu, calls>>

(***************************************************************************)
(* discovery/skin_collector.py                                             *)
(***************************************************************************)
get_my_selection(n, summoner_id, summoner_name) ==
    IF lcu[n].champion_id = 0 \/ lcu[n].skin_id = 0 THEN NoSelection
    ELSE SkinSelection(summoner_id, summoner_name, lcu[n].champion_id,
                       lcu[n].skin_id, lcu[n].chroma_id)

PartySkinData(selection, is_local) ==
    [summoner_id |-> selection.summoner_id, summoner_name |-> selection.summoner_name,
     champion_id |-> selection.champion_id, skin_id |-> selection.skin_id,
     chroma_id |-> selection.chroma_id, is_local |-> is_local]

\* the selection collect_all_skins takes for one peer connection
peer_selection(cn, _selections) ==
    IF cn.skin_selection # NoSelection THEN cn.skin_selection
    ELSE _selections[cn.token.summoner_id]

\* does collect_all_skins append an entry for this peer connection
peer_emitted(cn, _selections, team_champions) ==
    LET selection == peer_selection(cn, _selections)
    IN  /\ cn.state = "connected"
        /\ selection # NoSelection
        /\ ~ (/\ team_champions[selection.summoner_id] # 0
              /\ team_champions[selection.summoner_id] # selection.champion_id)

\* collect_all_skins: the entries it returns (the order is the order of peers)
collect_all_skins(n, peers, my_summoner_id, my_summoner_name, team_champions) ==
    LET my_selection == get_my_selection(n, my_summoner_id, my_summoner_name)
        mine == IF my_selection # NoSelection
                THEN {PartySkinData([my_selection EXCEPT !.summoner_id = my_summoner_id,
                                                         !.summoner_name = my_summoner_name],
                                    TRUE)}
                ELSE {}
        theirs == {PartySkinData(peer_selection(conns[n][c], manager[n]._selections), FALSE) :
                     c \in {x \in peers :
                              peer_emitted(conns[n][x], manager[n]._selections,
                                           team_champions)}}
    IN  mine \cup theirs

\* PartyManager.get_party_skins
get_party_skins(n) ==
    IF ~party_state[n].enabled THEN {}
    ELSE collect_all_skins(
             n,
             {manager[n]._peers[s] :
                s \in {x \in get_connected_peers(party_state[n]) : manager[n]._peers[x] # 0}},
             party_state[n].my_summoner_id, party_state[n].my_summoner_name,
             lcu[n].team_champions)

_send_my_skin_to_peer(w, n, c) ==
    LET selection == get_my_selection(n, w.party_state[n].my_summoner_id,
                                      w.party_state[n].my_summoner_name)
    IN  IF selection = NoSelection THEN w
        ELSE [send_message(w, n, c, create_skin_update(selection)) EXCEPT !.raised = FALSE]

(***************************************************************************)
(* PartyManager.add_peer, with PeerConnection.connect, _handshake and      *)
(* UDPTransport.hole_punch inlined.  The coroutine is suspended            *)
(*   stale     in the await of existing.disconnect()                       *)
(*   punch     in hole_punch, between a probe and the wait for a reply     *)
(*   handshake in the transport.recv of _handshake                         *)
(***************************************************************************)
\* the call returned result from the return (or raise) statement at line
Return(result, line) == [NoCall EXCEPT !.result = result, !.line = line]

Outcome(w, call) == [w |-> w, call |-> call]

\* UDPTransport.bind
bind(w, n, g) ==
    IF w.transports[n][g]._bound THEN w
    ELSE [w EXCEPT !.transports[n][g]._socket = TRUE,
                   !.transports[n][g]._bound = TRUE]

\* one probe of hole_punch; a failed send is logged
punch_send(w, n, c, addr) ==
    [transport_send(w, n, w.conns[n][c].transport,
                    Punch(w.conns[n][c].my_summoner_id), addr)
       EXCEPT !.raised = FALSE]

\* an add_peer that keeps the party-state entry of a peer it failed to reach
add_peer_failed_keeping_peer(w, n, c) ==
    Outcome(_notify_state_change(_set_state(w, n, c, "disconnected"), n),
            Return("False", 281))

\* connect() returned False (or raised inside its try) and add_peer took
\* the else branch
add_peer_failed(w, n, c) ==
    LET sid == w.conns[n][c].token.summoner_id
    IN  Outcome(_notify_state_change(
                    ps_remove_peer(_set_state(w, n, c, "disconnected"), n, sid), n),
                Return("False", 281))

\* add_peer after the checks of an existing connection
add_peer_create(w, n, token) ==
    LET sid == token.summoner_id
        c == w.manager[n].conns_made + 1
        g == w.manager[n]._transport
    IN  IF sid = w.party_state[n].my_summoner_id
        THEN Outcome(w, Return("False", 240))
        ELSE IF c > MaxConns
        THEN Outcome(w, [NoCall EXCEPT !.blocked = TRUE])
        ELSE LET w1 == [w EXCEPT
                          !.manager[n].conns_made = c,
                          !.conns[n][c] =
                              [NoConn EXCEPT
                                 !.exists = TRUE, !.token = token, !.transport = g,
                                 !.my_summoner_id = w.party_state[n].my_summoner_id,
                                 !.my_summoner_name = w.party_state[n].my_summoner_name,
                                 !.my_key = w.manager[n]._my_key]]
                 w2 == _notify_state_change(ps_add_peer(w1, n, sid), n)
                 \* connect()
                 w3 == _set_state(w2, n, c, "connecting")
             IN  IF g = 0
                 THEN add_peer_failed(w3, n, c)
                 ELSE LET w4 == IF ~w3.transports[n][g]._socket THEN bind(w3, n, g) ELSE w3
                      IN  Outcome(punch_send(w4, n, c, get_addresses(token)[1]),
                                  [NoCall EXCEPT !.pc = "punch", !.conn = c,
                                                 !.token = token])

\* an add_peer that starts the new connection without disconnecting the one
\* it finds in the map
add_peer_begin_keeping_stale(n, token_str) ==
    LET token == decode(token_str)
        sid == token.summoner_id
        existing == manager[n]._peers[sid]
    IN  IF ~party_state[n].enabled THEN Outcome(World, Return("False", 219))
        ELSE IF decode_raises(token_str, now) THEN Outcome(World, Return("False", 285))
        ELSE IF existing # 0 /\ conns[n][existing].state = "connected"
        THEN Outcome(World, Return("True", 231))
        ELSE add_peer_create([World EXCEPT !.manager[n]._peers[sid] = 0], n, token)

add_peer_begin(n, token_str) ==
    LET token == decode(token_str)
        sid == token.summoner_id
        existing == manager[n]._peers[sid]
    IN  IF ~party_state[n].enabled THEN Outcome(World, Return("False", 219))
        ELSE IF decode_raises(token_str, now) THEN Outcome(World, Return("False", 285))
        ELSE IF existing # 0 /\ conns[n][existing].state = "connected"
        THEN Outcome(World, Return("True", 231))
        ELSE IF existing # 0
        THEN LET w1 == disconnect_begin(World, n, existing)
             IN  IF disconnect_suspends(w1, n, existing)
                 THEN Outcome(w1, [NoCall EXCEPT !.pc = "stale", !.conn = existing,
                                                 !.token = token])
                 ELSE add_peer_create(
                          [disconnect_end(w1, n, existing)
                             EXCEPT !.manager[n]._peers[sid] = 0], n, token)
        ELSE add_peer_create(World, n, token)

\* began and concurrent note, for the checks, when this call began and
\* whether the add_peer of the other node was in progress then; they are kept
\* when the call returns
Began(n, call) == [call EXCEPT !.concurrent = calls[Other(n)].add_peer.pc # "idle",
                               !.began = now]

Went(n, call) == [call EXCEPT !.concurrent = calls[n].add_peer.concurrent,
                              !.began = calls[n].add_peer.began]

AddPeer(n, token_str) ==
    /\ calls[n].add_peer.pc = "idle"
    /\ LET o == add_peer_begin(n, token_str)
       IN  /\ ~o.call.blocked
           /\ Commit(o.w)
           /\ calls' = [calls EXCEPT ![n].add_peer = Began(n, o.call)]
    /\ UNCHANGED <<now, has_cryptography, codec, lcu>>

\* existing.disconnect() resumes: the cancelled keep-alive task has ended.
\* A connection that is not Connected has no pending keep-alive task, so the
\* await never suspends in the runs of the specifications below.
AddPeerStale(n) ==
    LET call == calls[n].add_peer
        sid == call.token.summoner_id
    IN  /\ call.pc = "stale"
        /\ LET w1 == disconnect_end(World, n, call.conn)
               \* del self._peers[sid] raises KeyError when the entry is gone
               o == IF w1.manager[n]._peers[sid] = 0
                    THEN Outcome(w1, Return("False", 288))
                    ELSE add_peer_create([w1 EXCEPT !.manager[n]._peers[sid] = 0], n,
                                         call.token)
           IN  /\ ~o.call.blocked
               /\ Commit(o.w)
               /\ calls' = [calls EXCEPT ![n].add_peer = Went(n, o.call)]
        /\ UNCHANGED <<now, has_cryptography, codec, lcu>>

\* connect() from the return of _handshake() = True to the end of add_peer
add_peer_connected(w, n, c) ==
    LET sid == w.conns[n][c].token.summoner_id
        g == w.conns[n][c].transport
        w1 == _set_state(w, n, c, "connected")
        w2 == [w1 EXCEPT !.conns[n][c].connected_at = now,
                         !.conns[n][c].last_seen = now,
                         !.conns[n][c]._running = TRUE,
                         !.conns[n][c]._keepalive_task = "running",
                         !.conns[n][c].wake = now + PING_INTERVAL]
        w3 == set_handler(w2, n, g, w2.conns[n][c]._remote_addr, c)
        \* back in add_peer
        w4 == update_peer_connection([w3 EXCEPT !.manager[n]._peers[sid] = c],
                                     n, sid, TRUE)
    IN  IF ~w4.party_state[n].peers[sid].present
        THEN \* party_state.peers[sid] raises KeyError, add_peer logs and returns False
             Outcome(w4, Return("False", 288))
        ELSE LET w5 == [w4 EXCEPT !.party_state[n].peers[sid].summoner_name =
                                      w4.conns[n][c].summoner_name]
             IN  Outcome(_send_my_skin_to_peer(_notify_state_change(w5, n), n, c),
                         Return("True", 277))

\* a connect() that takes the answered probe for the handshake
connect_punched_connected(w, n, call, recv_addr) ==
    LET c == call.conn
        cn == w.conns[n][c]
        w1 == [w EXCEPT
                 !.conns[n][c]._remote_addr = recv_addr,
                 !.conns[n][c]._crypto =
                     PartyCrypto(cn.my_key, cn.token.encryption_key, has_cryptography[n])]
    IN  add_peer_connected(w1, n, c)

\* connect() from the return of hole_punch to the first recv of _handshake
connect_punched(w, n, call, recv_addr) ==
    LET c == call.conn
        cn == w.conns[n][c]
    IN  IF cn.my_key = 0
        THEN \* derive_shared_key raises on a missing key
             add_peer_failed(w, n, c)
        ELSE LET w1 == [w EXCEPT
                          !.conns[n][c]._remote_addr = recv_addr,
                          !.conns[n][c]._crypto =
                              PartyCrypto(cn.my_key, cn.token.encryption_key,
                                          has_cryptography[n])]
                 w2 == _set_state(w1, n, c, "handshaking")
                 w3 == send_message(w2, n, c,
                                    create_hello(cn.my_summoner_id, cn.my_summoner_name))
             IN  IF w3.raised
                 THEN add_peer_failed([w3 EXCEPT !.raised = FALSE], n, c)
                 ELSE Outcome(w3, [call EXCEPT !.pc = "handshake", !.start = now])

\* hole_punch after an attempt that found no reply: the next probe, or None
punch_continue(w, n, call) ==
    LET c == call.conn
        addresses == get_addresses(call.token)
    IN  IF call.attempt + 1 < MaxAttempts
        THEN Outcome(punch_send(w, n, c, addresses[call.addr]),
                     [call EXCEPT !.attempt = @ + 1])
        ELSE IF call.addr < Len(addresses)
        THEN Outcome(punch_send(w, n, c, addresses[call.addr + 1]),
                     [call EXCEPT !.addr = @ + 1, !.attempt = 0])
        ELSE add_peer_failed(w, n, c)

\* a hole_punch that keeps waiting without putting back what it took
HolePunch_dropping(n) ==
    LET call == calls[n].add_peer
        c == call.conn
        g == conns[n][c].transport
        queue == transports[n][g]._pending_receives
        addr == get_addresses(call.token)[call.addr]
    IN  /\ call.pc = "punch"
        /\ LET o == IF queue = <<>>
                    THEN punch_continue(World, n, call)
                    ELSE LET item == Head(queue)
                             w1 == [World EXCEPT !.transports[n][g]._pending_receives = Tail(@)]
                             back == [w1 EXCEPT !.transports[n][g]._pending_receives =
                                                    Append(@, item)]
                         IN  IF \/ item.addr[1] = addr[1]
                                \/ item.addr[1] = call.token.external_ip
                             THEN connect_punched(
                                      IF startswith_PUNCH(item.data) THEN w1 ELSE back,
                                      n, call, item.addr)
                             ELSE punch_continue(w1, n, call)
           IN  /\ Commit(o.w)
               /\ calls' = [calls EXCEPT ![n].add_peer = Went(n, o.call)]
        /\ UNCHANGED <<now, has_cryptography, codec, lcu>>

\* hole_punch resumes after the sleep and waits for a queued datagram
HolePunch(n) ==
    LET call == calls[n].add_peer
        c == call.conn
        g == conns[n][c].transport
        queue == transports[n][g]._pending_receives
        addr == get_addresses(call.token)[call.addr]
    IN  /\ call.pc = "punch"
        /\ LET o == IF queue = <<>>
                    THEN \* asyncio.TimeoutError
                         punch_continue(World, n, call)
                    ELSE LET item == Head(queue)
                             w1 == [World EXCEPT !.transports[n][g]._pending_receives = Tail(@)]
                             back == [w1 EXCEPT !.transports[n][g]._pending_receives =
                                                    Append(@, item)]
                         IN  IF \/ item.addr[1] = addr[1]
                                \/ item.addr[1] = call.token.external_ip
                             THEN connect_punched(
                                      IF startswith_PUNCH(item.data) THEN w1 ELSE back,
                                      n, call, item.addr)
                             ELSE punch_continue(back, n, call)
           IN  /\ Commit(o.w)
               /\ calls' = [calls EXCEPT ![n].add_peer = Went(n, o.call)]
        /\ UNCHANGED <<now, has_cryptography, codec, lcu>>

\* _handshake resumes with a datagram from transport.recv, or with its timeout
Handshake(n) ==
    LET call == calls[n].add_peer
        c == call.conn
        cn == conns[n][c]
        g == cn.transport
        queue == transports[n][g]._pending_receives
    IN  /\ call.pc = "handshake"
        /\ now - call.start < HANDSHAKE_TIMEOUT
        /\ LET o == IF queue = <<>>
                    THEN \* asyncio.TimeoutError: resend HELLO
                         LET w1 == send_message(World, n, c,
                                       create_hello(cn.my_summoner_id, cn.my_summoner_name))
                         IN  IF w1.raised
                             THEN add_peer_failed([w1 EXCEPT !.raised = FALSE], n, c)
                             ELSE Outcome(w1, [call EXCEPT !.resends = @ + 1,
                                                           !.blocked = call.resends >= MaxResend])
                    ELSE LET item == Head(queue)
                             w1 == [World EXCEPT !.transports[n][g]._pending_receives = Tail(@)]
                             msg == item.data.msg
                             named == [w1 EXCEPT !.conns[n][c].summoner_name =
                                                     msg.payload.summoner_name]
                         IN  IF \/ item.addr # cn._remote_addr
                                \/ cn._crypto = NoCrypto
                                \/ ~decrypt_ok(cn._crypto, item.data)
                                \/ ~from_bytes_ok(item.data)
                                \/ msg.type \notin {"hello", "hello_ack"}
                             THEN Outcome(w1, call)
                             ELSE IF msg.type = "hello"
                             THEN LET w2 == send_message(named, n, c,
                                                create_hello_ack(cn.my_summoner_id,
                                                                 cn.my_summoner_name))
                                  IN  IF w2.raised
                                      THEN add_peer_failed([w2 EXCEPT !.raised = FALSE], n, c)
                                      ELSE add_peer_connected(w2, n, c)
                             ELSE add_peer_connected(named, n, c)
           IN  /\ ~o.call.blocked
               /\ Commit(o.w)
               /\ calls' = [calls EXCEPT ![n].add_peer = Went(n, o.call)]
        /\ UNCHANGED <<now, has_cryptography, codec, lcu>>

\* the while condition of _handshake finds HANDSHAKE_TIMEOUT seconds gone
HandshakeTimeout(n) ==
    LET call == calls[n].add_peer
    IN  /\ call.pc = "handshake"
        /\ now - call.start >= HANDSHAKE_TIMEOUT
        /\ LET o == add_peer_failed(World, n, call.conn)
           IN  /\ Commit(o.w)
               /\ calls' = [calls EXCEPT ![n].add_peer = Went(n, o.call)]
        /\ UNCHANGED <<now, has_cryptography, codec, lcu>>

(***************************************************************************)
(* PartyManager.disable.  enable() runs the same code when it fails, so    *)
(* the steps take the call k ("disable" or "enable") that is running it.   *)
(* The coroutine is suspended                                              *)
(*   d_lobby, d_skin  awaiting the cancelled background task               *)
(*   d_peer           awaiting the keep-alive task of the peer being       *)
(*                    disconnected                                         *)
(*   d_stop           in UDPTransport.stop, awaiting the receive task      *)
(***************************************************************************)
cancel(task) == IF task = "running" THEN "cancelled" ELSE task

\* awaiting a task suspends the caller until the task has ended
pending(task) == task \in {"running", "cancelled"}

\* the connections in _peers.values(), in the order of the dict
RECURSIVE PeerList(_, _)
PeerList(_peers, sids) ==
    IF sids = {} THEN <<>>
    ELSE LET s == CHOOSE x \in sids : \A y \in sids : x <= y
         IN  (IF _peers[s] # 0 THEN <<_peers[s]>> ELSE <<>>) \o PeerList(_peers, sids \ {s})

DisableReturn(k) == IF k = "enable" THEN Return("raised", 170) ELSE Return("returned", 206)

\* disable() from the end of UDPTransport.stop to its end
disable_finish(w, n, k) ==
    LET w1 == [w EXCEPT !.manager[n]._transport = 0]
        w2 == [clear_all(w1, n) EXCEPT !.manager[n]._my_key = 0,
                                        !.manager[n]._my_token = NoToken]
    IN  Outcome(_notify_state_change(w2, n), DisableReturn(k))

\* a stop() that forgets to close the socket
stop_end_open(w, n, g) ==
    [w EXCEPT !.transports[n][g]._receive_task = None,
              !.transports[n][g]._bound = FALSE]

\* UDPTransport.stop from the end of the await of the receive task
stop_end(w, n, g) ==
    [w EXCEPT !.transports[n][g]._receive_task = None,
              !.transports[n][g]._socket = FALSE,
              !.transports[n][g]._bound = FALSE]

\* disable() from self._peers.clear()
disable_stop(w, n, k) ==
    LET w1 == [w EXCEPT !.manager[n]._peers = [s \in Sids |-> 0]]
        g == w1.manager[n]._transport
    IN  IF g = 0 THEN disable_finish(w1, n, k)
        ELSE LET w2 == [w1 EXCEPT !.transports[n][g]._running = FALSE,
                                  !.transports[n][g]._receive_task = cancel(@)]
             IN  IF pending(w2.transports[n][g]._receive_task)
                 THEN Outcome(w2, [NoCall EXCEPT !.pc = "d_stop", !.gen = g])
                 ELSE disable_finish(stop_end(w2, n, g), n, k)

\* the loop over the peers, at the peer at the head of todo
RECURSIVE disable_peers(_, _, _, _)
disable_peers(w, n, k, todo) ==
    IF todo = <<>> THEN disable_stop(w, n, k)
    ELSE LET c == Head(todo)
             w1 == disconnect_begin(w, n, c)
         IN  IF disconnect_suspends(w1, n, c)
             THEN Outcome(w1, [NoCall EXCEPT !.pc = "d_peer", !.conn = c,
                                             !.todo = Tail(todo)])
             ELSE disable_peers(disconnect_end(w1, n, c), n, k, Tail(todo))

\* disable() from the end of the loop over the two background tasks
disable_tasks_done(w, n, k) ==
    LET w1 == [w EXCEPT !.manager[n]._lobby_check_task = None,
                        !.manager[n]._skin_broadcast_task = None]
    IN  disable_peers(w1, n, k, PeerList(w1.manager[n]._peers, Sids))

\* the second round of that loop: the skin-broadcast task, when the list has one
disable_skin(w, n, k, listed) ==
    IF listed /\ pending(w.manager[n]._skin_broadcast_task)
    THEN Outcome([w EXCEPT !.manager[n]._skin_broadcast_task = cancel(@)],
                 [NoCall EXCEPT !.pc = "d_skin"])
    ELSE disable_tasks_done(w, n, k)

\* disable() from its first statement; the list of the two tasks is built here
disable_begin(w, n, k) ==
    LET w1 == [w EXCEPT !.manager[n]._running = FALSE]
        listed == w1.manager[n]._skin_broadcast_task # None
    IN  IF pending(w1.manager[n]._lobby_check_task)
        THEN Outcome([w1 EXCEPT !.manager[n]._lobby_check_task = cancel(@)],
                     [NoCall EXCEPT !.pc = "d_lobby",
                                    !.todo = IF listed THEN <<1>> ELSE <<>>])
        ELSE disable_skin(w1, n, k, listed)

\* a cancelled task ends when it is next scheduled, before its awaiter resumes
ended(task) == IF task = "cancelled" THEN "done" ELSE task

\* the coroutine resumes from one of its awaits
disable_resume(w, n, k, call) ==
    CASE call.pc = "d_lobby" ->
           disable_skin([w EXCEPT !.manager[n]._lobby_check_task = ended(@)],
                        n, k, call.todo # <<>>)
      [] call.pc = "d_skin" ->
           disable_tasks_done([w EXCEPT !.manager[n]._skin_broadcast_task = ended(@)],
                              n, k)
      [] call.pc = "d_peer" ->
           disable_peers(disconnect_end(w, n, call.conn), n, k, call.todo)
      [] call.pc = "d_stop" ->
           disable_finish(stop_end(w, n, call.gen), n, k)

DisablePcs == {"d_lobby", "d_skin", "d_peer", "d_stop"}

\* interrupts notes, for the checks, that an add_peer was suspended when
\* this disable() began
Disable(n) ==
    /\ calls[n].disable.pc = "idle"
    /\ LET o == disable_begin(World, n, "disable")
       IN  /\ Commit(o.w)
           /\ calls' = [calls EXCEPT ![n].disable =
                          [o.call EXCEPT !.interrupts = calls[n].add_peer.pc # "idle"]]
    /\ UNCHANGED <<now, has_cryptography, codec, lcu>>

DisableResume(n, k) ==
    /\ calls[n][k].pc \in DisablePcs
    /\ LET o == disable_resume(World, n, k, calls[n][k])
       IN  /\ Commit(o.w)
           /\ calls' = [calls EXCEPT ![n][k] =
                          [o.call EXCEPT !.interrupts = calls[n][k].interrupts]]
    /\ UNCHANGED <<now, has_cryptography, codec, lcu>>

(***************************************************************************)
(* PartyManager.enable.  The coroutine is suspended                        *)
(*   stun   in StunClient.discover                                         *)
(* and, when it fails, at the awaits of disable().                         *)
(***************************************************************************)
\* create_token and PartyToken.encode on the address STUN reported
create_token(n, g, summoner_id, key) ==
    PartyToken(summoner_id, Addr(n, g), NoIp, PortOf(n, g), key, now)

\* what awaiting UDPTransport.bind can do: return, raise from socket.socket()
\* before there is a socket, or raise from socket.bind() with the socket open
BindResults == {"bound", "socket_error", "bind_error"}

\* enable() from the try statement to the await of discover()
enable_start(n, bind_result) ==
    LET g == manager[n].made + 1
        \* a fresh LobbyMatcher and SkinCollector
        w1 == [World EXCEPT !.manager[n]._selections = [s \in Sids |-> NoSelection]]
    IN  IF lcu[n].summoner_id = 0
        THEN disable_begin(w1, n, "enable")
        ELSE IF g > MaxEnables + (IF calls[n].enable.pc = "stun" THEN MaxConcurrent ELSE 0)
        THEN Outcome(World, [NoCall EXCEPT !.blocked = TRUE])
        ELSE LET w2 == [w1 EXCEPT
                          !.party_state[n].my_summoner_id = lcu[n].summoner_id,
                          !.party_state[n].my_summoner_name = lcu[n].summoner_name,
                          !.manager[n]._transport = g,
                          !.manager[n].made = g]
             IN  CASE bind_result = "socket_error" ->
                        disable_begin(w2, n, "enable")
                   [] bind_result = "bind_error" ->
                        disable_begin([w2 EXCEPT !.transports[n][g]._socket = TRUE],
                                      n, "enable")
                   [] OTHER ->
                        Outcome(bind(w2, n, g), [NoCall EXCEPT !.pc = "stun", !.gen = g])

\* an enable() without the check of party_state.enabled
enable_begin_unchecked(n, bind_result) == enable_start(n, bind_result)

enable_begin(n, bind_result) ==
    IF party_state[n].enabled
    THEN Outcome(World, [Return("token", 111) EXCEPT !.ret = party_state[n].my_token])
    ELSE enable_start(n, bind_result)

\* UDPTransport.start_receiving
start_receiving(w, n, g) ==
    IF w.transports[n][g]._running THEN w
    ELSE [bind(w, n, g) EXCEPT !.transports[n][g]._running = TRUE,
                               !.transports[n][g]._receive_task = "running"]

\* enable() from the return of discover() to its end
enable_resume(ww, n, call, stun_ok) ==
    LET g == ww.manager[n]._transport
        \* the transport this call made is held by self._transport alone; when
        \* another one took its place, the socket is closed with its last
        \* reference, the one discover() held
        w == IF g # call.gen
             THEN [ww EXCEPT !.transports[n][call.gen]._socket = FALSE,
                             !.transports[n][call.gen]._bound = FALSE]
             ELSE ww
    IN  IF ~stun_ok \/ g = 0
        THEN \* discover() returned None, or self._transport is None by now
             disable_begin(w, n, "enable")
        ELSE LET key == KeyOf(n, call.gen)
                 token == create_token(n, call.gen, lcu[n].summoner_id, key)
                 \* create_task replaces the tasks the manager held; a pair
                 \* that was running keeps running
                 w0 == IF pending(w.manager[n]._lobby_check_task)
                       THEN [w EXCEPT !.manager[n].orphaned = @ + 1]
                       ELSE w
                 w1 == [start_receiving(w0, n, g) EXCEPT
                          !.manager[n]._my_key = key,
                          !.manager[n]._my_token = token,
                          !.party_state[n].my_token = encode(token),
                          !.party_state[n].enabled = TRUE,
                          !.manager[n]._running = TRUE,
                          !.manager[n]._lobby_check_task = "running",
                          !.manager[n]._skin_broadcast_task = "running",
                          !.manager[n].last_skin_id = 0,
                          !.manager[n].last_chroma_id = 0]
             IN  Outcome(_notify_state_change(w1, n),
                         [Return("token", 165) EXCEPT !.ret = encode(token)])

Enable(n, bind_result) ==
    /\ calls[n].enable.pc = "idle"
    /\ LET o == enable_begin(n, bind_result)
       IN  /\ ~o.call.blocked
           /\ Commit(o.w)
           /\ calls' = [calls EXCEPT ![n].enable = o.call]
    /\ UNCHANGED <<now, has_cryptography, codec, lcu>>

EnableStun(n, stun_ok) ==
    /\ calls[n].enable.pc = "stun"
    /\ LET o == enable_resume(World, n, calls[n].enable, stun_ok)
       IN  /\ Commit(o.w)
           /\ calls' = [calls EXCEPT ![n].enable = o.call]
    /\ UNCHANGED <<now, has_cryptography, codec, lcu>>

(***************************************************************************)
(* PartyManager._skin_broadcast_loop: one round after its sleep            *)
(***************************************************************************)
\* a loop over the peers that a failed send leaves
RECURSIVE broadcast_to_raising(_, _, _, _)
broadcast_to_raising(w, n, peers, msg) ==
    IF peers = <<>> THEN w
    ELSE LET c == Head(peers)
             w1 == IF w.conns[n][c].state = "connected"
                   THEN send_message(w, n, c, msg)
                   ELSE w
         IN  IF w1.raised THEN w1 ELSE broadcast_to_raising(w1, n, Tail(peers), msg)

\* broadcast_skin_update; a failed send to one peer is logged
RECURSIVE broadcast_to(_, _, _, _)
broadcast_to(w, n, peers, msg) ==
    IF peers = <<>> THEN w
    ELSE LET c == Head(peers)
             w1 == IF w.conns[n][c].state = "connected"
                   THEN [send_message(w, n, c, msg) EXCEPT !.raised = FALSE]
                   ELSE w
         IN  broadcast_to(w1, n, Tail(peers), msg)

broadcast_skin_update(w, n) ==
    LET selection == get_my_selection(n, w.party_state[n].my_summoner_id,
                                      w.party_state[n].my_summoner_name)
    IN  IF ~w.party_state[n].enabled \/ selection = NoSelection THEN w
        ELSE broadcast_to(w, n, PeerList(w.manager[n]._peers, Sids),
                          create_skin_update(selection))

_skin_broadcast_loop(w, n) ==
    IF ~w.manager[n]._running
    THEN \* continue, and the while condition ends the loop
         [w EXCEPT !.manager[n]._skin_broadcast_task = "done"]
    ELSE IF \/ lcu[n].skin_id # w.manager[n].last_skin_id
            \/ lcu[n].chroma_id # w.manager[n].last_chroma_id
    THEN broadcast_skin_update(
             [w EXCEPT !.manager[n].last_skin_id = lcu[n].skin_id,
                       !.manager[n].last_chroma_id = lcu[n].chroma_id], n)
    ELSE w

SkinBroadcastTick(n) ==
    /\ manager[n]._skin_broadcast_task = "running"
    /\ Commit(_skin_broadcast_loop(World, n))
    /\ UNCHANGED <<now, has_cryptography, codec, lcu, calls>>

(***************************************************************************)
(* PartyManager._lobby_check_loop: one round after its sleep               *)
(***************************************************************************)
\* the loop over _peers.items() that files who is in the lobby
RECURSIVE check_lobby_status(_, _, _, _)
check_lobby_status(w, n, sids, lobby_ids) ==
    IF sids = {} THEN w
    ELSE LET s == CHOOSE x \in sids : \A y \in sids : x <= y
             c == w.manager[n]._peers[s]
             in_lobby == s \in lobby_ids
             w1 == IF c # 0 /\ w.conns[n][c].in_lobby # in_lobby
                   THEN update_peer_lobby_status(w, n, s, in_lobby)
                   ELSE w
         IN  check_lobby_status(w1, n, sids \ {s}, lobby_ids)

_lobby_check_loop(w, n) ==
    LET lobby_ids == get_all_summoner_ids(n)
        w1 == check_lobby_status(w, n, Sids, lobby_ids)
    IN  IF ~w.manager[n]._running
        THEN \* continue, and the while condition ends the loop
             [w EXCEPT !.manager[n]._lobby_check_task = "done"]
        ELSE IF lobby_ids # {}
        THEN broadcast_to(w1, n, PeerList(w1.manager[n]._peers, Sids),
                          create_lobby_info(w1.party_state[n].my_summoner_id, lobby_ids))
        ELSE w1

LobbyCheckTick(n) ==
    /\ manager[n]._lobby_check_task = "running"
    /\ Commit(_lobby_check_loop(World, n))
    /\ UNCHANGED <<now, has_cryptography, codec, lcu, calls>>

(***************************************************************************)
(* PeerConnection._keepalive_loop: one round after its sleep               *)
(***************************************************************************)
\* the comparison a keep-alive that counts the limit itself as dead would make
is_dead_inclusive(time_since_seen) == time_since_seen >= DEAD_TIMEOUT

is_dead(time_since_seen) == time_since_seen > DEAD_TIMEOUT

_keepalive_loop(w, n, c) ==
    LET cn == w.conns[n][c]
        seq == _next_sequence(cn._sequence)
    IN  IF ~cn._running
        THEN [w EXCEPT !.conns[n][c]._keepalive_task = "done"]
        ELSE IF is_dead(now - cn.last_seen)
        THEN [_set_state(w, n, c, "dead") EXCEPT !.conns[n][c]._keepalive_task = "done"]
        ELSE LET w1 == [w EXCEPT !.conns[n][c]._sequence = seq,
                                 !.conns[n][c]._pending_ping_seq = seq,
                                 !.conns[n][c]._last_ping_time = now,
                                 !.conns[n][c].wake = now + PING_INTERVAL]
             IN  [send_message(w1, n, c, create_ping(seq)) EXCEPT !.raised = FALSE]

KeepaliveTick(n, c) ==
    /\ conns[n][c]._keepalive_task = "running"
    /\ now >= conns[n][c].wake
    /\ Commit(_keepalive_loop(World, n, c))
    /\ UNCHANGED <<now, has_cryptography, codec, lcu, calls>>

(***************************************************************************)
(* The clock.  A keep-alive whose sleep is over and a handshake whose      *)
(* deadline has passed run before the clock moves again.                   *)
(***************************************************************************)
Overdue ==
    \/ \E n \in Nodes, c \in ConnIds :
          conns[n][c]._keepalive_task = "running" /\ now >= conns[n][c].wake
    \/ \E n \in Nodes :
          /\ calls[n].add_peer.pc = "handshake"
          /\ now - calls[n].add_peer.start >= HANDSHAKE_TIMEOUT

Advance ==
    /\ now < StartTime + MaxClock * TimeStep
    /\ ~Overdue
    /\ now' = now + TimeStep
    /\ UNCHANGED <<net, has_cryptography, codec, lcu, party_state, manager, transports,
                   conns, calls, ui, wire>>

(***************************************************************************)
(* Scheduling.  A datagram in flight reaches the receive loop of its       *)
(* destination before any coroutine takes its next step, and before the    *)
(* clock moves; the replies to PUNCH replies, which never end, are taken   *)
(* at any time.                                                            *)
(***************************************************************************)
\* a datagram in flight that a running receive loop can take
Deliverable(d) ==
    \E n \in Nodes, g \in Gens :
       /\ d.dst = Addr(n, g)
       /\ transports[n][g]._receive_task = "running"
       /\ transports[n][g]._socket
       /\ \/ transports[n][g]._handlers[d.src] # 0
          \/ Len(transports[n][g]._pending_receives) < MaxQueue

Fresh(d) == ~startswith_PUNCH(d.data) \/ d.data.hops < 2

Urgent == \E d \in net : Fresh(d) /\ Deliverable(d)

Deliver(n) == Urgent /\ \E g \in Gens, d \in net : Fresh(d) /\ _receive_loop(n, g, d)

Echo(n) == ~Urgent /\ \E g \in Gens, d \in net : ~Fresh(d) /\ _receive_loop(n, g, d)

\* an add_peer in progress has a datagram to take from the queue
Ready(n) ==
    /\ calls[n].add_peer.pc \in {"punch", "handshake"}
    /\ transports[n][conns[n][calls[n].add_peer.conn].transport]._pending_receives # <<>>

\* time passes when nothing is left to do at once
Tock == ~Urgent /\ (\A n \in Nodes : ~Ready(n)) /\ Advance

(***************************************************************************)
(* What LCU and SharedState report: the local summoner, the lobby, the     *)
(* champion of every team member and the skin hovered locally.             *)
(***************************************************************************)
NoTeam == [s \in Sids |-> 0]

Lcu(n, team_champions, champion_id, skin_id) ==
    [summoner_id |-> SidOf(n), summoner_name |-> NameOf(n), lobby_ids |-> {SidOf(n)},
     team_champions |-> team_champions,
     champion_id |-> champion_id, skin_id |-> skin_id, chroma_id |-> 0]

ChampionOf(n) == IF n = "A" THEN 103 ELSE 77
SkinOf(n) == IF n = "A" THEN 12 ELSE 5

Picked(n) == Lcu(n, NoTeam, ChampionOf(n), SkinOf(n))
NotPicked(n) == Lcu(n, NoTeam, 0, 0)

(***************************************************************************)
(* The state enable() leaves: transport g bound and receiving, key and     *)
(* token generated at time t, both background loops started.               *)
(***************************************************************************)
EnabledToken(n, g, t) == PartyToken(SidOf(n), Addr(n, g), NoIp, PortOf(n, g), KeyOf(n, g), t)

EnabledPartyState(n, g, t) ==
    [NoPartyState EXCEPT !.enabled = TRUE, !.my_token = encode(EnabledToken(n, g, t)),
                         !.my_summoner_id = SidOf(n), !.my_summoner_name = NameOf(n)]

EnabledManager(n, g, t) ==
    [NoManager EXCEPT !._my_key = KeyOf(n, g), !._my_token = EnabledToken(n, g, t),
                      !._transport = g, !._running = TRUE,
                      !._lobby_check_task = "running",
                      !._skin_broadcast_task = "running", !.made = g]

EnabledTransport ==
    [NoTransport EXCEPT !._socket = TRUE, !._bound = TRUE, !._running = TRUE,
                        !._receive_task = "running"]

NoWire == Datagram(NoAddr, NoAddr, Punch(0))

(***************************************************************************)
(* Two nodes, both enabled, each given the other's token.  The             *)
(* skin-broadcast loop of each node ran its first round before the tokens  *)
(* were exchanged; its later rounds find the selection unchanged and send  *)
(* nothing.                                                                *)
(***************************************************************************)
Init ==
    /\ now = StartTime
    /\ net = {}
    \* A's process imported cryptography; B's did, or fell back to XOR
    /\ has_cryptography \in {f \in [Nodes -> BOOLEAN] : f["A"]}
    \* A picked champion and skin, B has not picked yet
    /\ lcu = [n \in Nodes |-> IF n = "A" THEN Picked(n) ELSE NotPicked(n)]
    /\ party_state = [n \in Nodes |-> EnabledPartyState(n, 1, StartTime)]
    /\ manager = [n \in Nodes |->
                    [EnabledManager(n, 1, StartTime) EXCEPT !.last_skin_id = lcu[n].skin_id]]
    /\ transports = [n \in Nodes |->
                       [g \in Gens |-> IF g = 1 THEN EnabledTransport ELSE NoTransport]]
    /\ conns = [n \in Nodes |-> [c \in ConnIds |-> NoConn]]
    /\ calls = [n \in Nodes |-> NoCalls]
    /\ ui = [n \in Nodes |-> to_dict(party_state[n])]
    /\ wire = [n \in Nodes |-> NoWire]
    /\ codec = NoCodec

\* the add_peer coroutine of n is scheduled
Resume(n) == ~Urgent /\ (HolePunch(n) \/ Handshake(n) \/ HandshakeTimeout(n))

\* time passes while a handshake is waiting for its answer
Wait == (\E n \in Nodes : calls[n].add_peer.pc = "handshake") /\ Tock

\* the user of n pastes the token of the other node, once
Paste(n) ==
    /\ ~Urgent
    /\ calls[n].add_peer.result = None
    /\ AddPeer(n, party_state[Other(n)].my_token)

Next ==
    \/ \E n \in Nodes : Paste(n) \/ Resume(n) \/ Deliver(n) \/ Echo(n)
    \/ Wait

Spec == Init /\ [][Next]_vars

(***************************************************************************)
(* What the two-node runs are checked against.                             *)
(***************************************************************************)
\* the connection n's add_peer stored for the other node, 0 when none
PeerOf(n) == manager[n]._peers[SidOf(Other(n))]

ConnectedTo(n) == PeerOf(n) # 0 /\ conns[n][PeerOf(n)].state = "connected"

Returned(n) == calls[n].add_peer.pc = "idle" /\ calls[n].add_peer.result # None

Joined(n) ==
    /\ calls[n].add_peer.result = "True"
    /\ ConnectedTo(n)
    /\ conns[n][PeerOf(n)].summoner_name = NameOf(Other(n))
    /\ party_state[n].peers[SidOf(Other(n))].summoner_name = NameOf(Other(n))

\* both calls began in the same instant, the later one while the earlier
\* one was in progress
BeganTogether ==
    /\ \E n \in Nodes : calls[n].add_peer.concurrent
    /\ calls["A"].add_peer.began = calls["B"].add_peer.began

\* C1: when both nodes are enabled and each called add_peer with the token
\* of the other, the two calls beginning together (each before the other
\* finishes) and no datagram being lost, then both calls return True, both
\* connections are Connected and each side holds the summoner_name the other
\* sent
C1_BothJoin ==
    (BeganTogether /\ (\A n \in Nodes : Returned(n))) => \A n \in Nodes : Joined(n)

HasSelection(n) == lcu[n].champion_id # 0 /\ lcu[n].skin_id # 0

\* the entry B's get_party_skins should hold for A
EntryOf(n) ==
    [summoner_id |-> SidOf(n), summoner_name |-> NameOf(n),
     champion_id |-> lcu[n].champion_id, skin_id |-> lcu[n].skin_id,
     chroma_id |-> lcu[n].chroma_id, is_local |-> FALSE]

Reported(n, by) ==
    \E e \in get_party_skins(by) :
       /\ e.summoner_id = SidOf(n)
       /\ e.champion_id = lcu[n].champion_id
       /\ e.skin_id = lcu[n].skin_id
       /\ ~e.is_local

\* nothing is left that could carry a selection: no add_peer is in progress,
\* no encrypted datagram is in flight and the skin-broadcast loops have sent
\* what they found
Settled ==
    /\ \A n \in Nodes : calls[n].add_peer.pc = "idle"
    /\ \A d \in net : startswith_PUNCH(d.data)
    /\ \A n \in Nodes : /\ manager[n].last_skin_id = lcu[n].skin_id
                        /\ manager[n].last_chroma_id = lcu[n].chroma_id

\* C2: once A and B are Connected to each other and A has a selection that
\* does not change, B's get_party_skins holds A's entry (A's summoner_id,
\* champion_id and skin_id, not local) as soon as everything sent has arrived
C2_SelectionArrives ==
    (ConnectedTo("A") /\ ConnectedTo("B") /\ HasSelection("A") /\ Settled)
        => Reported("A", "B")

(***************************************************************************)
(* One node and a remote peer.  Node A runs the program; the peer is the   *)
(* summoner of B behind B's address, seen only through the datagrams it    *)
(* sends and the token it published.  What A sends to it leaves the model  *)
(* (wire keeps the last datagram).                                         *)
(***************************************************************************)
RemoteAddr == Addr("B", 1)
RemoteKey == KeyOf("B", 1)

RemoteToken(timestamp) ==
    PartyToken(SidOf("B"), RemoteAddr, NoIp, RemoteAddr[2], RemoteKey, timestamp)

SelfToken(timestamp) ==
    PartyToken(SidOf("A"), Addr("A", 1), NoIp, PortOf("A", 1), KeyOf("A", 1), timestamp)

\* token strings that decode: the peer's token exactly TOKEN_EXPIRY_SECONDS
\* old, and a token carrying A's own summoner_id
GoodTokenStr == encode(RemoteToken(now - TOKEN_EXPIRY_SECONDS))
OwnTokenStr == encode(SelfToken(now))

\* token strings PartyToken.decode rejects: one second older, not base64,
\* not a zlib stream, too few bytes, another version
ExpiredTokenStr == encode(RemoteToken(now - TOKEN_EXPIRY_SECONDS - 1))

BadTokenStrs ==
    { ExpiredTokenStr,
      [GoodTokenStr EXCEPT !.base64 = FALSE],
      [GoodTokenStr EXCEPT !.deflate = FALSE],
      [GoodTokenStr EXCEPT !.length = TOKEN_BYTES - 1],
      [GoodTokenStr EXCEPT !.fields.version = TOKEN_VERSION + 1] }

TokenStrs == {GoodTokenStr, OwnTokenStr} \cup BadTokenStrs

\* the cipher of the peer: its key and the key of the token A published
RemoteCrypto(key) == PartyCrypto(key, manager["A"]._my_key, TRUE)

RemoteSelection(sid, champion_id) == SkinSelection(sid, NameOf("B"), champion_id, SkinOf("B"), 0)

\* the echo of a probe
RemotePunch == {Replied(Punch(SidOf("A")))}

\* answers to HELLO: HELLO_ACK, the peer's own HELLO, and a HELLO_ACK under
\* a key A cannot derive
RemoteHello ==
    { encrypt(RemoteCrypto(RemoteKey), create_hello_ack(SidOf("B"), NameOf("B"))),
      encrypt(RemoteCrypto(RemoteKey), create_hello(SidOf("B"), NameOf("B"))),
      encrypt(RemoteCrypto(ForeignKey), create_hello_ack(SidOf("B"), NameOf("B"))) }

\* traffic on an established connection: a PING, SKIN_UPDATEs naming the
\* peer or a third summoner, and bytes that decrypt but are no message
RemoteTraffic ==
    { encrypt(RemoteCrypto(RemoteKey), create_ping(1)),
      encrypt(RemoteCrypto(RemoteKey),
              create_skin_update(RemoteSelection(SidOf("B"), ChampionOf("A")))),
      encrypt(RemoteCrypto(RemoteKey),
              create_skin_update(RemoteSelection(3, ChampionOf("A")))),
      [encrypt(RemoteCrypto(RemoteKey), create_ping(1)) EXCEPT !.wellformed = FALSE] }

\* the transport A is using, and the add_peer in progress on it
TransportOf(n) == manager[n]._transport

Listening(n) ==
    /\ TransportOf(n) # 0
    /\ transports[n][TransportOf(n)]._receive_task = "running"
    /\ transports[n][TransportOf(n)]._socket

Waiting(n, pc) ==
    /\ calls[n].add_peer.pc = pc
    /\ conns[n][calls[n].add_peer.conn].transport = TransportOf(n)
    /\ transports[n][TransportOf(n)]._pending_receives = <<>>

\* the connection of n that has the handler for the peer's address; the PONGs
\* it owes are bounded by letting the peer ping only while few numbers are used
Established(n, data) ==
    LET c == transports[n][TransportOf(n)]._handlers[RemoteAddr]
    IN  /\ c # 0
        /\ conns[n][c].state = "connected"
        /\ data.msg.type = "ping" => conns[n][c]._sequence < MaxSeq

\* the peer sends one datagram of datas to A while A listens and nothing is
\* in flight
RemoteSends(datas) ==
    /\ ~Urgent
    /\ net = {}
    /\ Listening("A")
    /\ \E data \in datas :
          /\ \/ data \in RemotePunch /\ Waiting("A", "punch")
             \/ data \in RemoteHello /\ Waiting("A", "handshake")
             \/ data \notin RemotePunch \cup RemoteHello /\ Established("A", data)
          /\ net' = {Datagram(RemoteAddr, Addr("A", TransportOf("A")), data)}
    /\ UNCHANGED <<now, has_cryptography, codec, lcu, party_state, manager, transports,
                   conns, calls, ui, wire>>

\* LCU reports A's summoner, or none while the client is not running
LcuNode(summoner_id) ==
    [Lcu("A", [s \in Sids |-> IF s = SidOf("A") THEN ChampionOf("A")
                              ELSE IF s = SidOf("B") THEN ChampionOf("B") ELSE 0],
         ChampionOf("A"), SkinOf("A"))
       EXCEPT !.summoner_id = summoner_id]

InitNode ==
    /\ now = StartTime
    /\ net = {}
    /\ has_cryptography = [n \in Nodes |-> TRUE]
    /\ \E summoner_id \in {0, SidOf("A")} :
          lcu = [n \in Nodes |-> IF n = "A" THEN LcuNode(summoner_id) ELSE NotPicked(n)]
    /\ party_state = [n \in Nodes |-> NoPartyState]
    /\ manager = [n \in Nodes |-> NoManager]
    /\ transports = [n \in Nodes |-> [g \in Gens |-> NoTransport]]
    /\ conns = [n \in Nodes |-> [c \in ConnIds |-> NoConn]]
    /\ calls = [n \in Nodes |-> NoCalls]
    /\ ui = [n \in Nodes |-> to_dict(party_state[n])]
    /\ wire = [n \in Nodes |-> NoWire]
    /\ codec = NoCodec

\* the user of A turns Party Mode on; the socket and STUN work or fail
TurnOn == ~Urgent /\ \E bind_result \in BindResults : Enable("A", bind_result)

Stun == ~Urgent /\ \E stun_ok \in BOOLEAN : EnableStun("A", stun_ok)

\* the user turns it off; disable() resumes inside either caller
TurnOff == ~Urgent /\ Disable("A")

Off == ~Urgent /\ \E k \in {"enable", "disable"} : DisableResume("A", k)

\* the user pastes a token string; only the first that decodes makes a
\* connection
PasteAny ==
    /\ ~Urgent
    /\ \E token_str \in TokenStrs : AddPeer("A", token_str)
    /\ manager'["A"].conns_made <= 1

Connecting == ~Urgent /\ (HolePunch("A") \/ Handshake("A") \/ HandshakeTimeout("A"))

Receive == Deliver("A")

\* the peer answers a probe or a HELLO
Answer == RemoteSends(RemotePunch \cup RemoteHello)

\* time passes while a handshake is waiting for its answer
Sleeping == calls["A"].add_peer.pc = "handshake" /\ Tock

NextNode ==
    \/ TurnOn \/ Stun \/ TurnOff \/ Off \/ PasteAny \/ Connecting
    \/ Receive \/ Answer \/ Sleeping

SpecNode == InitNode /\ [][NextNode]_vars

(***************************************************************************)
(* The same node through the life of one connection: Party Mode is turned  *)
(* on, the peer's token is pasted and the peer answers, then the           *)
(* keep-alive ticks every PING_INTERVAL seconds while the peer sends or    *)
(* stays silent.                                                           *)
(***************************************************************************)
InitKeepalive == InitNode /\ lcu["A"].summoner_id # 0

Start == ~Urgent /\ manager["A"].made = 0 /\ Enable("A", "bound")

Discovered == ~Urgent /\ EnableStun("A", TRUE)

\* the user pastes the peer's token while A holds no live connection to it;
\* one connection is made
Join ==
    /\ ~Urgent
    /\ party_state["A"].enabled
    /\ calls["A"].disable.pc = "idle"
    /\ ~ConnectedTo("A")
    /\ AddPeer("A", GoodTokenStr)
    /\ manager'["A"].conns_made <= 1

HelloAck ==
    RemoteSends(RemotePunch \cup
                {encrypt(RemoteCrypto(RemoteKey), create_hello_ack(SidOf("B"), NameOf("B")))})

Traffic == RemoteSends(RemoteTraffic)

\* the peer answers in time
Connect == ~Urgent /\ (HolePunch("A") \/ Handshake("A"))

Keepalive == ~Urgent /\ \E c \in ConnIds : KeepaliveTick("A", c)

Broadcast == ~Urgent /\ SkinBroadcastTick("A")

\* the user turns Party Mode off once a connection was made
Leave ==
    /\ ~Urgent
    /\ calls["A"].add_peer.pc = "idle"
    /\ PeerOf("A") # 0
    /\ Disable("A")

Left == ~Urgent /\ DisableResume("A", "disable")

\* time passes while a keep-alive sleeps
Idle == (\E c \in ConnIds : conns["A"][c]._keepalive_task = "running") /\ Tock

NextKeepalive ==
    \/ Start \/ Discovered \/ Join \/ Connect \/ HelloAck \/ Receive
    \/ Traffic \/ Keepalive \/ Broadcast \/ Idle \/ Leave \/ Left

SpecKeepalive == InitKeepalive /\ [][NextKeepalive]_vars

(***************************************************************************)
(* What the runs of the one node are checked against.                      *)
(***************************************************************************)
SidOfConn(n, c) == conns[n][c].token.summoner_id

\* the non-local entries of get_party_skins that come from connection c
EntriesFrom(n, c) ==
    {e \in get_party_skins(n) :
        /\ ~e.is_local
        /\ e = PartySkinData(peer_selection(conns[n][c], manager[n]._selections), FALSE)}

\* C3: for every Connected peer, identified by the summoner_id of its
\* connection, whose entry in the team map differs from the champion_id of
\* its most recent selection, get_party_skins holds no entry coming from it
C3_TeamFilter ==
    \A s \in Sids :
       LET c == manager["A"]._peers[s]
           team_map == lcu["A"].team_champions
       IN  (/\ c # 0
            /\ conns["A"][c].state = "connected"
            /\ conns["A"][c].skin_selection # NoSelection
            /\ team_map[s] # 0
            /\ team_map[s] # conns["A"][c].skin_selection.champion_id)
           => EntriesFrom("A", c) = {}

\* a keep-alive round of connection c run in the current state: over the
\* limit it declares Dead, ends and sends nothing; within it the state stays
\* Connected and the next PING goes to the peer
KeepaliveRound(c) ==
    LET cn == conns["A"][c]
        w == _keepalive_loop(World, "A", c)
        after == w.conns["A"][c]
    IN  IF now - cn.last_seen > DEAD_TIMEOUT
        THEN /\ after.state = "dead"
             /\ after._keepalive_task = "done"
             /\ after._sequence = cn._sequence
             /\ w.net = net
             /\ w.wire = wire
        ELSE /\ after.state = "connected"
             /\ after._keepalive_task = "running"
             /\ w.wire["A"] # wire["A"]
             /\ w.wire["A"].dst = cn._remote_addr
             /\ w.wire["A"].data.msg.type = "ping"

Alive(c) ==
    /\ conns["A"][c].state = "connected"
    /\ conns["A"][c]._running
    /\ conns["A"][c]._keepalive_task = "running"

\* the step hands connection c a datagram that decrypts to a message
Heard(c) ==
    \E d \in net :
       /\ d \notin net'
       /\ d.dst = Addr("A", conns["A"][c].transport)
       /\ transports["A"][conns["A"][c].transport]._handlers[d.src] = c
       /\ decrypt_ok(conns["A"][c]._crypto, d.data)
       /\ from_bytes_ok(d.data)

\* last_seen is the time of the connect or of the last message heard
LastSeenStep ==
    \A c \in ConnIds :
       /\ Heard(c) => conns'["A"][c].last_seen = now
       /\ conns'["A"][c].last_seen # conns["A"][c].last_seen
             => /\ conns'["A"][c].last_seen = now
                /\ Heard(c) \/ conns["A"][c].state = "handshaking"
       /\ (conns'["A"][c].state = "dead" /\ conns["A"][c].state # "dead")
             => /\ conns["A"][c].state = "connected"
                /\ now - conns["A"][c].last_seen > DEAD_TIMEOUT

\* C4: at every keep-alive tick of a Connected peer, more than DEAD_TIMEOUT
\* seconds since the last message heard make the connection Dead and end the
\* loop with nothing sent, anything less leaves the state and sends a PING;
\* a peer silent for longer is declared Dead by the next tick, and no peer
\* heard within DEAD_TIMEOUT seconds is declared Dead
C4_Keepalive ==
    /\ [](\A c \in ConnIds :
             Alive(c) => /\ KeepaliveRound(c)
                         /\ now - conns["A"][c].last_seen <= DEAD_TIMEOUT + PING_INTERVAL)
    /\ [][LastSeenStep]_vars

\* a tick pinged a peer silent for exactly DEAD_TIMEOUT seconds and the
\* next one declared it Dead
C4_Witness ==
    \E c \in ConnIds :
       /\ conns["A"][c].state = "dead"
       /\ conns["A"][c]._keepalive_task = "done"
       /\ conns["A"][c]._last_ping_time = conns["A"][c].last_seen + DEAD_TIMEOUT
       /\ now - conns["A"][c].last_seen > DEAD_TIMEOUT

\* C5: a connection the keep-alive moved to Dead is no longer in the
\* manager's map of peers, is not reported as connected, and the UI was told
C5_DeadRemoved ==
    \A c \in ConnIds :
       (conns["A"][c].exists /\ conns["A"][c].state = "dead")
          => /\ manager["A"]._peers[SidOfConn("A", c)] # c
             /\ ~party_state["A"].peers[SidOfConn("A", c)].connected
             /\ SidOfConn("A", c) \notin ui["A"].connected

\* PeerConnection.disconnect, run to its end
disconnect(w, n, c) == disconnect_end(disconnect_begin(w, n, c), n, c)

\* C6: disconnect() in any state of a connection ends with it Disconnected,
\* its keep-alive task gone and no handler registered for its address; a
\* second disconnect() changes nothing and raises nothing
C6_Disconnect ==
    \A c \in ConnIds :
       conns["A"][c].exists =>
          LET once == disconnect(World, "A", c)
              twice == disconnect(once, "A", c)
              cn == once.conns["A"][c]
          IN  /\ cn.state = "disconnected"
              /\ cn._keepalive_task = None
              /\ ~cn._running
              /\ cn._remote_addr # NoAddr
                    => once.transports["A"][cn.transport]._handlers[cn._remote_addr] = 0
              /\ ~once.raised
              /\ twice = once

\* disable() disconnected a connection that had been Connected
C6_Witness ==
    \E c \in ConnIds :
       /\ conns["A"][c].connected_at # 0
       /\ conns["A"][c].state = "disconnected"
       /\ conns["A"][c]._keepalive_task = None
       /\ transports["A"][conns["A"][c].transport]._handlers[conns["A"][c]._remote_addr] = 0

\* C7: enable() on an enabled manager returns the token the enabling call
\* issued and changes nothing: no socket, key, token or task is created
C7_EnableAgain ==
    party_state["A"].enabled =>
       /\ party_state["A"].my_token = encode(manager["A"]._my_token)
       /\ calls["A"].enable.line = 165 => calls["A"].enable.ret = party_state["A"].my_token
       /\ \A bind_result \in BindResults :
             LET o == enable_begin("A", bind_result)
             IN  /\ o.call = [Return("token", 111) EXCEPT !.ret = party_state["A"].my_token]
                 /\ o.w = World

\* enable() returned the token of the first enable() from its first line
C7_Witness ==
    /\ party_state["A"].enabled
    /\ calls["A"].enable.line = 111
    /\ calls["A"].enable.ret = encode(EnabledToken("A", 1, StartTime))
    /\ manager["A"].made = 1

\* what disable() leaves of the manager in w
Cleared(w) ==
    /\ ~w.party_state["A"].enabled
    /\ w.party_state["A"].my_token = NoTokenStr
    /\ w.manager["A"]._my_token = NoToken
    /\ w.manager["A"]._my_key = 0
    /\ w.manager["A"]._transport = 0
    /\ ~w.manager["A"]._running
    /\ w.manager["A"]._lobby_check_task = None
    /\ w.manager["A"]._skin_broadcast_task = None
    /\ \A g \in Gens : /\ ~w.transports["A"][g]._socket
                       /\ w.transports["A"][g]._receive_task # "running"

NoPeers(w) ==
    /\ \A s \in Sids : /\ w.manager["A"]._peers[s] = 0
                       /\ ~w.party_state["A"].peers[s].present
    /\ \A c \in ConnIds :
          w.conns["A"][c].connected_at # 0
             => /\ w.conns["A"][c].state = "disconnected"
                /\ w.conns["A"][c]._keepalive_task # "running"

\* the outcomes of the step the call k of A can take now that end the call
\* at line
Ending(k, line) ==
    {o \in (IF calls["A"][k].pc \in DisablePcs
            THEN {disable_resume(World, "A", k, calls["A"][k])}
            ELSE IF k = "disable"
            THEN {disable_begin(World, "A", k)}
            ELSE IF calls["A"][k].pc = "stun"
            THEN {enable_resume(World, "A", calls["A"][k], stun_ok) : stun_ok \in BOOLEAN}
            ELSE {enable_begin("A", bind_result) : bind_result \in BindResults}) :
        o.call.pc = "idle" /\ o.call.line = line}

\* C8: when disable() returns the manager is not enabled, token and key are
\* cleared, the map of peers and the peers of the party state are empty,
\* every connection that was in the map is Disconnected with no keep-alive,
\* both loops have ended and the socket is closed; a second disable()
\* changes nothing
C8_DisableClears ==
    \A o \in Ending("disable", 206) :
       /\ Cleared(o.w)
       /\ NoPeers(o.w)
       /\ LET again == disable_begin(o.w, "A", "disable")
          IN  again.call = o.call /\ again.w = o.w

\* C9: when enable() fails (no summoner id, no socket, no STUN answer) it
\* raises and leaves the manager not enabled, without token, with the socket
\* closed and with neither the receive loop nor the two loops running
C9_EnableFails ==
    \A o \in Ending("enable", 170) : o.call.result = "raised" /\ Cleared(o.w)

\* enable() raised after it had made a transport
C9_Witness ==
    /\ calls["A"].enable.pc = "idle"
    /\ calls["A"].enable.line = 170
    /\ manager["A"].made > 0
    /\ Cleared(World)

\* the token string is one decode() cannot return a token for at time
Undecodable(token_str, time) ==
    \/ ~token_str.base64
    \/ ~token_str.deflate
    \/ token_str.length < TOKEN_BYTES
    \/ token_str.fields.version # TOKEN_VERSION
    \/ time - token_str.fields.timestamp > TOKEN_EXPIRY_SECONDS

\* C10: add_peer returns False and leaves the map of peers, the party state
\* and the handlers as they were when the manager is not enabled, when the
\* token does not decode (a timestamp more than TOKEN_EXPIRY_SECONDS old
\* included) and when the token carries the manager's own summoner_id
C10_AddPeerRefuses ==
    \A token_str \in TokenStrs :
       (\/ ~party_state["A"].enabled
        \/ Undecodable(token_str, now)
        \/ token_str.fields.summoner_id = party_state["A"].my_summoner_id)
          => LET o == add_peer_begin("A", token_str)
             IN  /\ o.call.pc = "idle"
                 /\ o.call.result = "False"
                 /\ o.w = World

\* add_peer refused a token on an enabled manager that holds a connection
C10_Witness ==
    /\ party_state["A"].enabled
    /\ calls["A"].add_peer.pc = "idle"
    /\ calls["A"].add_peer.line = 285
    /\ calls["A"].add_peer.result = "False"
    /\ PeerOf("A") # 0

(***************************************************************************)
(* add_peer: a connect() that fails.                                       *)
(***************************************************************************)
\* the step in which hole_punch returns None: the last probe to the last
\* address found no reply from the peer
PunchExhausted ==
    LET call == calls["A"].add_peer
        queue == transports["A"][conns["A"][call.conn].transport]._pending_receives
        addresses == get_addresses(call.token)
    IN  /\ call.pc = "punch"
        /\ call.attempt + 1 >= MaxAttempts
        /\ call.addr >= Len(addresses)
        /\ \/ queue = <<>>
           \/ /\ Head(queue).addr[1] # addresses[call.addr][1]
              /\ Head(queue).addr[1] # call.token.external_ip
        /\ calls'["A"].add_peer # call

\* the step in which _handshake gives up: HANDSHAKE_TIMEOUT seconds went by
\* with no HELLO or HELLO_ACK it could decrypt
HandshakeExpired ==
    LET call == calls["A"].add_peer
    IN  /\ call.pc = "handshake"
        /\ now - call.start >= HANDSHAKE_TIMEOUT
        /\ calls'["A"].add_peer # call

\* add_peer has returned False and nothing is left of connection c
Abandoned(c) ==
    LET cn == conns'["A"][c]
        sid == cn.token.summoner_id
    IN  /\ calls'["A"].add_peer.pc = "idle"
        /\ calls'["A"].add_peer.result = "False"
        /\ cn.state = "disconnected"
        /\ cn._keepalive_task # "running"
        /\ ~cn._running
        /\ \A g \in Gens, a \in AllAddrs : transports'["A"][g]._handlers[a] # c
        /\ manager'["A"]._peers[sid] = 0
        /\ ~party_state'["A"].peers[sid].present
        /\ sid \notin ui'["A"].peers

\* C11: when hole punching finds no working address, or the handshake gets
\* no HELLO or HELLO_ACK it can decrypt within HANDSHAKE_TIMEOUT seconds,
\* add_peer returns False, the connection is Disconnected with no handler
\* and no keep-alive, and neither the map of peers nor the party state keeps
\* an entry for its summoner_id
C11_ConnectFails ==
    [][(PunchExhausted \/ HandshakeExpired) => Abandoned(calls["A"].add_peer.conn)]_vars

\* add_peer returned False after a handshake that timed out
C11_Witness ==
    /\ calls["A"].add_peer.pc = "idle"
    /\ calls["A"].add_peer.line = 281
    /\ calls["A"].add_peer.result = "False"
    /\ \E c \in ConnIds :
          /\ conns["A"][c].exists
          /\ conns["A"][c]._remote_addr # NoAddr
          /\ conns["A"][c].state = "disconnected"
          /\ now - StartTime >= HANDSHAKE_TIMEOUT
          /\ wire["A"].data.msg.type = "hello"

(***************************************************************************)
(* The same node pasting the peer's token again and again: while the       *)
(* connection lives, and after the keep-alive declared it Dead.            *)
(***************************************************************************)
PasteAgain ==
    /\ ~Urgent
    /\ party_state["A"].enabled
    /\ AddPeer("A", GoodTokenStr)

NextRejoin ==
    \/ Start \/ Discovered \/ PasteAgain \/ Connect \/ HelloAck \/ Receive
    \/ Keepalive \/ Idle

SpecRejoin == InitKeepalive /\ [][NextRejoin]_vars

\* nothing of connection c is left running in w, and the map of peers of w
\* does not hold it
Retired(w, c) ==
    LET cn == w.conns["A"][c]
    IN  /\ cn.state = "disconnected"
        /\ ~cn._running
        /\ cn._keepalive_task = None
        /\ \A g \in Gens, a \in AllAddrs : w.transports["A"][g]._handlers[a] # c
        /\ \A s \in Sids : w.manager["A"]._peers[s] # c
        /\ ~w.party_state["A"].peers[cn.token.summoner_id].connected

\* C12: add_peer for a summoner_id that is in the map of peers returns True
\* and starts nothing when that connection is Connected; otherwise the old
\* connection is disconnected (keep-alive cancelled, handler removed) and
\* out of the map when the new attempt starts
C12_AddPeerAgain ==
    LET sid == decode(GoodTokenStr).summoner_id
        existing == manager["A"]._peers[sid]
        o == add_peer_begin("A", GoodTokenStr)
    IN  (party_state["A"].enabled /\ existing # 0) =>
           IF conns["A"][existing].state = "connected"
           THEN /\ o.call.pc = "idle"
                /\ o.call.result = "True"
                /\ o.w = World
           ELSE /\ Retired(o.w, existing)
                /\ o.w.manager["A"]._peers[sid] = 0
                /\ ~o.call.blocked =>
                      /\ o.call.pc = "punch"
                      /\ o.call.conn # existing
                      /\ o.w.conns["A"][o.call.conn].state = "connecting"
                      /\ o.w.manager["A"].conns_made = manager["A"].conns_made + 1

\* the token was pasted again after the keep-alive declared the connection
\* Dead: the old connection is gone and a new one is Connected in its place
C12_Witness ==
    \E c, d \in ConnIds :
       /\ c # d
       /\ conns["A"][c].connected_at # 0
       /\ conns["A"][c].state = "disconnected"
       /\ now - conns["A"][c].last_seen > DEAD_TIMEOUT
       /\ manager["A"]._peers[conns["A"][d].token.summoner_id] = d
       /\ conns["A"][d].state = "connected"
       /\ conns["A"][d].token.summoner_id = conns["A"][c].token.summoner_id

(***************************************************************************)
(* PING, PONG and the sequence numbers on the wire.                        *)
(***************************************************************************)
\* the step hands connection c the datagram d, which decrypts to a message
\* of the given type
Hears(c, d, type) ==
    /\ d \in net
    /\ d \notin net'
    /\ d.dst = Addr("A", conns["A"][c].transport)
    /\ transports["A"][conns["A"][c].transport]._handlers[d.src] = c
    /\ decrypt_ok(conns["A"][c]._crypto, d.data)
    /\ from_bytes_ok(d.data)
    /\ d.data.msg.type = type

\* C13: the PONG a connection sends in answer to a PING carries, on the
\* wire, the sequence number of that PING
C13_PongEchoes ==
    [][\A c \in ConnIds : \A d \in net :
          Hears(c, d, "ping") =>
             /\ wire'["A"].dst = d.src
             /\ wire'["A"].data.msg.type = "pong"
             /\ wire'["A"].data.msg.sequence = d.data.msg.sequence]_vars

(***************************************************************************)
(* The same node with a talkative peer: once Connected, the peer answers   *)
(* PINGs, changes its selection, announces the lobby and sends datagrams   *)
(* that cannot be read.                                                    *)
(***************************************************************************)
\* the PONG of a peer that echoes the PING A sent last
RemotePong ==
    IF wire["A"].data.kind = "enc" /\ wire["A"].data.msg.type = "ping"
    THEN {encrypt(RemoteCrypto(RemoteKey), create_pong(wire["A"].data.msg.sequence))}
    ELSE {}

\* two selections of the peer, and a SKIN_UPDATE whose payload lacks skin_id
RemoteSkins ==
    { encrypt(RemoteCrypto(RemoteKey),
              create_skin_update(RemoteSelection(SidOf("B"), ChampionOf("B")))),
      encrypt(RemoteCrypto(RemoteKey),
              create_skin_update([RemoteSelection(SidOf("B"), ChampionOf("B"))
                                    EXCEPT !.skin_id = SkinOf("B") + 1])),
      encrypt(RemoteCrypto(RemoteKey),
              create_skin_update([RemoteSelection(SidOf("B"), ChampionOf("B"))
                                    EXCEPT !.skin_id = 0])) }

\* LOBBY_MATCH{matched = true}
RemoteLobbyMatch ==
    {encrypt(RemoteCrypto(RemoteKey),
             [Message("lobby_match", NoSelection) EXCEPT !.matched = TRUE])}

\* datagrams no connection of A can read: a probe sent again, a message
\* under a key A cannot derive, bytes that are not JSON, and JSON whose type
\* is no MessageType
RemoteGarbage ==
    { Punch(SidOf("B")),
      encrypt(RemoteCrypto(ForeignKey),
              create_skin_update(RemoteSelection(SidOf("B"), ChampionOf("A")))),
      [encrypt(RemoteCrypto(RemoteKey),
               create_skin_update(RemoteSelection(SidOf("B"), ChampionOf("A"))))
         EXCEPT !.wellformed = FALSE],
      [encrypt(RemoteCrypto(RemoteKey), create_ping(1)) EXCEPT !.msg.type = "bogus"] }

Chatter == RemoteSends(RemotePong \cup RemoteSkins \cup RemoteLobbyMatch \cup RemoteGarbage)

NextTraffic ==
    \/ Start \/ Discovered \/ Join \/ Connect \/ HelloAck \/ Receive
    \/ Chatter \/ Keepalive \/ Idle

SpecTraffic == InitKeepalive /\ [][NextTraffic]_vars

\* the step in which the keep-alive of connection c sends a PING
PingSent(c) ==
    /\ conns["A"][c]._keepalive_task = "running"
    /\ conns'["A"][c]._last_ping_time = now
    /\ wire'["A"] # wire["A"]
    /\ wire'["A"].data.msg.type = "ping"

\* the datagram carries the sequence number of the PING A sent last
AnswersPing(d) ==
    /\ wire["A"].data.kind = "enc"
    /\ wire["A"].data.msg.type = "ping"
    /\ wire["A"].dst = d.src
    /\ d.data.msg.sequence = wire["A"].data.msg.sequence

\* C14: every PING of the keep-alive carries on the wire the number held in
\* _pending_ping_seq, and the PONG that answers it matches that number, so
\* that its arrival clears the slot and stamps _last_pong_time
C14_PingPong ==
    [][\A c \in ConnIds :
          /\ PingSent(c) =>
                wire'["A"].data.msg.sequence = conns'["A"][c]._pending_ping_seq
          /\ \A d \in net :
                (Hears(c, d, "pong") /\ AnswersPing(d)) =>
                   /\ conns'["A"][c]._pending_ping_seq = UNSET_PING_SEQ
                   /\ conns'["A"][c]._last_pong_time = now]_vars

(***************************************************************************)
(* The same node on a connection old enough for its sequence counter to    *)
(* wrap: the peer has sent PING after PING and A answered each of them.    *)
(***************************************************************************)
\* the last PING of a burst, answered by the PONG that takes the counter of
\* the connection to target; the earlier ones took it to target - 1
PongFlood(target) ==
    /\ ~Urgent
    /\ net = {}
    /\ Listening("A")
    /\ LET c == transports["A"][TransportOf("A")]._handlers[RemoteAddr]
       IN  /\ c # 0
           /\ conns["A"][c].state = "connected"
           /\ conns["A"][c]._sequence < target - 1
           /\ Commit(_handle_packet(
                        [World EXCEPT !.conns["A"][c]._sequence = target - 1],
                        "A", c, encrypt(RemoteCrypto(RemoteKey), create_ping(1))))
    /\ UNCHANGED <<now, has_cryptography, codec, lcu, calls>>

Flooded == \E target \in {SEQ_MOD - 2, SEQ_MOD - 1} : PongFlood(target)

Pinged == RemoteSends({encrypt(RemoteCrypto(RemoteKey), create_ping(1))})

NextWrap ==
    \/ Start \/ Discovered \/ Join \/ Connect \/ HelloAck \/ Receive
    \/ Pinged \/ Flooded \/ Keepalive \/ Idle

SpecWrap == InitKeepalive /\ [][NextWrap]_vars

SeqNumbers == 0 .. (SEQ_MOD - 1)

\* the numbers of connection c are in range in this state
InRange(c) ==
    /\ conns["A"][c]._sequence \in SeqNumbers
    /\ conns["A"][c]._pending_ping_seq \in SeqNumbers \cup {UNSET_PING_SEQ}
    /\ (wire["A"].data.kind = "enc" /\ wire["A"].dst = conns["A"][c]._remote_addr)
          => /\ wire["A"].data.msg.sequence \in SeqNumbers
             /\ wire["A"].data.msg.sequence # UNSET_PING_SEQ

\* the step is the end of a burst of PINGs
Burst == net = {} /\ net' = {} /\ wire'["A"] # wire["A"] /\ wire'["A"].data.msg.type = "pong"

\* a step in which connection c sends, a burst aside: the message leaves
\* with the number the counter has reached, one or two ahead of where it was
\* (a round of the keep-alive, and an add_peer that answers HELLO and sends
\* its selection, take two numbers)
ForwardStep(c) ==
    (/\ conns["A"][c].exists
     /\ conns'["A"][c]._sequence # conns["A"][c]._sequence
     /\ ~Burst)
       => /\ conns'["A"][c]._sequence \in
                {_next_sequence(conns["A"][c]._sequence),
                 _next_sequence(_next_sequence(conns["A"][c]._sequence))}
          /\ wire'["A"].data.msg.sequence = conns'["A"][c]._sequence
          /\ wire'["A"].dst = conns'["A"][c]._remote_addr

\* C15: the sequence numbers a connection puts on its outgoing messages lie
\* in 0..65535 and move forward modulo 65536, 65535 being followed by 0, and
\* the unset value of _pending_ping_seq is none of the numbers that can be on
\* the wire, before and after the counter wraps
C15_SequenceWraps ==
    /\ [](/\ UNSET_PING_SEQ \notin SeqNumbers
          /\ _next_sequence(SEQ_MOD - 1) = 0
          /\ \A c \in ConnIds : InRange(c))
    /\ [][\A c \in ConnIds : ForwardStep(c)]_vars

\* the counter wrapped: a PING left with sequence number 0 while the number
\* before it, 65535, is the one the keep-alive waits for
C15_Witness ==
    \E c \in ConnIds :
       /\ conns["A"][c].state = "connected"
       /\ wire["A"].data.kind = "enc"
       /\ wire["A"].data.msg.type = "ping"
       /\ wire["A"].data.msg.sequence = 0
       /\ conns["A"][c]._pending_ping_seq = SEQ_MOD - 1

(***************************************************************************)
(* Datagrams a connection cannot read.                                     *)
(***************************************************************************)
\* the data are not the encryption, under the key of connection c, of the
\* bytes of a Message
Unreadable(c, data) ==
    \/ ~decrypt_ok(conns["A"][c]._crypto, data)
    \/ ~from_bytes_ok(data)

\* the step hands connection c the unreadable datagram d
HearsNoise(c, d) ==
    /\ d \in net
    /\ d \notin net'
    /\ d.dst = Addr("A", conns["A"][c].transport)
    /\ transports["A"][conns["A"][c].transport]._handlers[d.src] = c
    /\ Unreadable(c, d.data)

\* C16: a datagram that fails decryption, or decrypts to bytes that are no
\* valid message, changes nothing: the state of the connection, last_seen,
\* the selection, in_lobby and _pending_ping_seq stay as they are, no
\* callback reaches the manager, the party state or the UI, nothing is sent
\* to the peer, and the receive loop keeps running
C16_NoiseIgnored ==
    /\ [](\A c \in ConnIds : \A data \in RemoteGarbage :
             conns["A"][c].exists => _handle_packet(World, "A", c, data) = World)
    /\ [][\A c \in ConnIds : \A d \in net :
             HearsNoise(c, d) =>
                /\ conns' = conns
                /\ party_state' = party_state
                /\ manager' = manager
                /\ ui' = ui
                /\ wire' = wire
                /\ transports' = transports
                /\ transports'["A"][conns["A"][c].transport]._receive_task = "running"]_vars

\* an unreadable datagram is about to reach a connection that has a
\* selection, the in_lobby flag and a PING waiting for its PONG
C16_Witness ==
    \E c \in ConnIds : \E d \in net :
       /\ d.dst = Addr("A", conns["A"][c].transport)
       /\ transports["A"][conns["A"][c].transport]._handlers[d.src] = c
       /\ Unreadable(c, d.data)
       /\ d.data.kind = "enc"
       /\ conns["A"][c].state = "connected"
       /\ conns["A"][c].skin_selection # NoSelection
       /\ conns["A"][c].in_lobby
       /\ conns["A"][c]._pending_ping_seq # UNSET_PING_SEQ
       /\ now > conns["A"][c].last_seen

(***************************************************************************)
(* SKIN_UPDATE: the newest selection wins.                                 *)
(***************************************************************************)
\* the manager was told of the selection connection c received: the party
\* state files it under the peer of c, the skin collector under the
\* summoner_id it carries, and the UI is refreshed
ManagerNotified(c, selection) ==
    /\ party_state'["A"].peers[SidOfConn("A", c)].skin_selection = selection
    /\ manager'["A"]._selections[selection.summoner_id] = selection
    /\ ui'["A"] = to_dict(party_state'["A"])

\* C17: after each SKIN_UPDATE a connection is handed, the selection it
\* holds is the payload of that message and the manager was told of it; a
\* SKIN_UPDATE whose payload cannot be parsed leaves the selection held
C17_NewestWins ==
    [][\A c \in ConnIds : \A d \in net :
          Hears(c, d, "skin_update") =>
             IF from_dict_ok(d.data.msg.payload)
             THEN /\ conns'["A"][c].skin_selection = d.data.msg.payload
                  /\ ManagerNotified(c, d.data.msg.payload)
             ELSE /\ conns'["A"][c].skin_selection = conns["A"][c].skin_selection
                  /\ party_state' = party_state
                  /\ manager' = manager]_vars

\* a connection holds the selection of one SKIN_UPDATE, the manager knows
\* it, and a SKIN_UPDATE with another selection is about to arrive
C17_Witness ==
    \E c \in ConnIds : \E d \in net :
       /\ d.dst = Addr("A", conns["A"][c].transport)
       /\ transports["A"][conns["A"][c].transport]._handlers[d.src] = c
       /\ decrypt_ok(conns["A"][c]._crypto, d.data)
       /\ from_bytes_ok(d.data)
       /\ d.data.msg.type = "skin_update"
       /\ from_dict_ok(d.data.msg.payload)
       /\ conns["A"][c].skin_selection # NoSelection
       /\ conns["A"][c].skin_selection # d.data.msg.payload
       /\ party_state["A"].peers[SidOfConn("A", c)].skin_selection = conns["A"][c].skin_selection

(***************************************************************************)
(* The lobby check: node A next to one peer that enters and leaves A's     *)
(* lobby and reports its own view of it.                                   *)
(***************************************************************************)
\* the lobbies LCU reports to A: alone, with the peer, or none
Lobbies == {{SidOf("A")}, {SidOf("A"), SidOf("B")}, {}}

\* the members of A's lobby change
LobbyChanges ==
    /\ ~Urgent
    /\ PeerOf("A") # 0
    /\ \E lobby_ids \in Lobbies :
          /\ lobby_ids # lcu["A"].lobby_ids
          /\ lcu' = [lcu EXCEPT !["A"].lobby_ids = lobby_ids]
    /\ UNCHANGED <<now, net, has_cryptography, codec, party_state, manager, transports,
                   conns, calls, ui, wire>>

\* LOBBY_MATCH with either answer
RemoteLobbyAnswers ==
    {encrypt(RemoteCrypto(RemoteKey),
             [Message("lobby_match", NoSelection) EXCEPT !.matched = matched]) :
        matched \in BOOLEAN}

LobbyAnswer == RemoteSends(RemoteLobbyAnswers)

\* the number of messages a connection sends while the background loops are observed
MaxSent == 5

\* the lobby check runs a round while the counters of the connections are
\* below the bound
LobbyCheck ==
    /\ ~Urgent
    /\ \A c \in ConnIds : conns["A"][c]._sequence < MaxSent
    /\ LobbyCheckTick("A")

NextLobby ==
    \/ Start \/ Discovered \/ Join \/ Connect \/ HelloAck \/ Receive
    \/ LobbyChanges \/ LobbyAnswer \/ LobbyCheck

SpecLobby == InitKeepalive /\ [][NextLobby]_vars

\* C18: after every lobby-check tick the in_lobby flag the party state
\* holds for each peer says whether the peer's summoner id is in the lobby
\* member set the tick read
C18_LobbyFlag ==
    [][LobbyCheck =>
          \A s \in Sids :
             manager["A"]._peers[s] # 0 =>
                party_state'["A"].peers[s].in_lobby = (s \in lcu["A"].lobby_ids)]_vars

(***************************************************************************)
(* The skin broadcast: node A next to one peer while the user of A moves   *)
(* between champions, skins and chromas.  A sends HELLO and SKIN_UPDATE    *)
(* only, so the last message on the wire tells what the peer was sent.     *)
(***************************************************************************)
\* what SharedState can report of the local pick
Hovers ==
    [champion_id : {ChampionOf("A"), ChampionOf("A") + 1},
     skin_id : {0, SkinOf("A"), SkinOf("A") + 1},
     chroma_id : {0, 1}]

\* the user changes one part of the pick
Hover ==
    /\ ~Urgent
    /\ manager["A"].made # 0
    /\ \E h \in Hovers :
          /\ Cardinality({f \in DOMAIN h : h[f] # lcu["A"][f]}) = 1
          /\ lcu' = [lcu EXCEPT !["A"].champion_id = h.champion_id,
                                !["A"].skin_id = h.skin_id,
                                !["A"].chroma_id = h.chroma_id]
    /\ UNCHANGED <<now, net, has_cryptography, codec, party_state, manager, transports,
                   conns, calls, ui, wire>>

\* the skin broadcast runs a round while the counters of the connections
\* are below the bound
SkinTick ==
    /\ ~Urgent
    /\ \A c \in ConnIds : conns["A"][c]._sequence < MaxSent
    /\ SkinBroadcastTick("A")

NextSkin ==
    \/ Start \/ Discovered \/ Join \/ Connect \/ HelloAck \/ Receive
    \/ Hover \/ SkinTick

SpecSkin == InitKeepalive /\ [][NextSkin]_vars

\* the selection the peer was sent last
LastSent ==
    IF wire["A"] # NoWire /\ wire["A"].data.msg.type = "skin_update"
    THEN wire["A"].data.msg.payload
    ELSE NoSelection

MySelection ==
    get_my_selection("A", party_state["A"].my_summoner_id,
                     party_state["A"].my_summoner_name)

\* in w a SKIN_UPDATE with the current selection has left for the peer of c
SendsSelection(w, c) ==
    /\ w.conns["A"][c]._sequence = _next_sequence(conns["A"][c]._sequence)
    /\ w.wire["A"].dst = conns["A"][c]._remote_addr
    /\ w.wire["A"].data.msg.type = "skin_update"
    /\ w.wire["A"].data.msg.payload = MySelection

\* the skin-broadcast loop may run a round
SkinTickDue ==
    /\ ~Urgent
    /\ \A c \in ConnIds : conns["A"][c]._sequence < MaxSent
    /\ manager["A"]._skin_broadcast_task = "running"

\* C19: a skin-broadcast tick that finds a local selection other than the
\* one the Connected peers were sent last sends a SKIN_UPDATE carrying it to
\* every Connected peer
C19_SkinBroadcast ==
    SkinTickDue /\ MySelection # NoSelection /\ MySelection # LastSent =>
       \A s \in Sids :
          LET c == manager["A"]._peers[s]
          IN  c # 0 /\ conns["A"][c].state = "connected" =>
                 SendsSelection(_skin_broadcast_loop(World, "A"), c)

(***************************************************************************)
(* broadcast_skin_update with two peers.  Node A is enabled and holds a    *)
(* connection to peer B and one to a third summoner, each Connected or     *)
(* Dead; the OS refuses to send to some of the two addresses.  The user    *)
(* hovers skins and the skin-broadcast loop runs its rounds.               *)
(***************************************************************************)
\* the summoner id no node of the model has
ThirdSid == CHOOSE s \in Sids : \A n \in Nodes : s # SidOf(n)

\* the time of the first round: the connections were made at StartTime, and
\* a peer that is Dead was last heard then
FanoutTime == StartTime + 4 * PING_INTERVAL

\* the connection object of a peer add_peer connected before any skin was
\* hovered: HELLO is the one message sent
Linked(sid, name, addr, key, state) ==
    [NoConn EXCEPT
       !.exists = TRUE,
       !.token = PartyToken(sid, addr, NoIp, addr[2], key, StartTime - TOKEN_EXPIRY_SECONDS),
       !.transport = 1,
       !.my_summoner_id = SidOf("A"), !.my_summoner_name = NameOf("A"),
       !.my_key = KeyOf("A", 1),
       !.summoner_name = name, !.connected_at = StartTime,
       !.last_seen = IF state = "connected" THEN FanoutTime ELSE StartTime,
       !.state = state, !._remote_addr = addr,
       !._crypto = PartyCrypto(KeyOf("A", 1), key, TRUE),
       !._sequence = 1,
       !._keepalive_task = IF state = "connected" THEN "running" ELSE "done",
       !._running = TRUE, !.wake = FanoutTime + PING_INTERVAL]

LinkedPeer(name, state) ==
    [NoPeerState EXCEPT !.present = TRUE, !.summoner_name = name,
                        !.connected = (state = "connected")]

InitFanout ==
    /\ now = FanoutTime
    /\ net = {}
    /\ has_cryptography = [n \in Nodes |-> TRUE]
    \* A picked its champion and hovers no skin yet
    /\ lcu = [n \in Nodes |-> IF n = "A" THEN [LcuNode(SidOf("A")) EXCEPT !.skin_id = 0]
                                        ELSE NotPicked(n)]
    /\ \E state1, state2 \in {"connected", "dead"} :
       \E refused \in SUBSET {RemoteAddr, ThirdAddr} :
          /\ conns = [n \in Nodes |-> [c \in ConnIds |->
                        IF n = "A" /\ c = 1
                        THEN Linked(SidOf("B"), NameOf("B"), RemoteAddr, RemoteKey, state1)
                        ELSE IF n = "A" /\ c = 2
                        THEN Linked(ThirdSid, "Carol", ThirdAddr, ForeignKey, state2)
                        ELSE NoConn]]
          /\ party_state = [n \in Nodes |->
                IF n = "A"
                THEN [EnabledPartyState("A", 1, StartTime) EXCEPT
                        !.peers[SidOf("B")] = LinkedPeer(NameOf("B"), state1),
                        !.peers[ThirdSid] = LinkedPeer("Carol", state2)]
                ELSE NoPartyState]
          /\ transports = [n \in Nodes |-> [g \in Gens |->
                IF n = "A" /\ g = 1
                THEN [EnabledTransport EXCEPT !._handlers[RemoteAddr] = 1,
                                              !.unreachable = refused]
                ELSE NoTransport]]
    /\ manager = [n \in Nodes |->
          IF n = "A"
          THEN [EnabledManager("A", 1, StartTime) EXCEPT
                  !._peers[SidOf("B")] = 1, !._peers[ThirdSid] = 2,
                  !.conns_made = 2]
          ELSE NoManager]
    /\ codec = NoCodec
    /\ calls = [n \in Nodes |-> NoCalls]
    /\ ui = [n \in Nodes |-> IF n = "A" THEN to_dict(party_state[n]) ELSE NoUi]
    /\ wire = [n \in Nodes |->
                 IF n = "A"
                 THEN Datagram(Addr("A", 1), ThirdAddr,
                               encrypt(PartyCrypto(KeyOf("A", 1), ForeignKey, TRUE),
                                       [create_hello(SidOf("A"), NameOf("A"))
                                          EXCEPT !.sequence = 1]))
                 ELSE NoWire]

NextFanout == Hover \/ SkinTick

SpecFanout == InitFanout /\ [][NextFanout]_vars

\* the connections in _peers that are Connected
Linkeds == {c \in ConnIds : \E s \in Sids : manager["A"]._peers[s] = c
                                            /\ conns["A"][c].state = "connected"}

Refused(c) == conns["A"][c]._remote_addr \in transports["A"][conns["A"][c].transport].unreachable

\* in w a SKIN_UPDATE with the current selection was handed to the socket
\* for connection c
Tried(w, c) == w.conns["A"][c]._sequence = _next_sequence(conns["A"][c]._sequence)

\* the SKIN_UPDATE of connection c is the last datagram that left
Departed(w, c) ==
    w.wire["A"] = Datagram(Addr("A", 1), conns["A"][c]._remote_addr,
                           encrypt(conns["A"][c]._crypto,
                                   [create_skin_update(MySelection)
                                      EXCEPT !.sequence = w.conns["A"][c]._sequence]))

\* C20: broadcast_skin_update raises nothing, tries every Connected peer
\* whether or not the send to another one failed, so that the datagram of
\* the last peer whose send works leaves, and passes over the peers that
\* are not Connected
C20_BroadcastSurvives ==
    LET w == broadcast_skin_update(World, "A")
    IN  party_state["A"].enabled /\ MySelection # NoSelection =>
           /\ ~w.raised
           /\ \A c \in Linkeds : Tried(w, c)
           /\ \A c \in Linkeds :
                 ~Refused(c) /\ (\A later \in Linkeds : later > c => Refused(later))
                    => Departed(w, c)
           /\ \A c \in ConnIds \ Linkeds : w.conns["A"][c] = conns["A"][c]

\* both peers are Connected, the send to the first is refused, and a round
\* of the loop has sent the selection: the first connection spent a
\* sequence number and the datagram for the second left
C20_Witness ==
    /\ Linkeds = {1, 2}
    /\ Refused(1) /\ ~Refused(2)
    /\ conns["A"][1]._sequence = 2
    /\ wire["A"].dst = ThirdAddr
    /\ wire["A"].data.msg.type = "skin_update"
    /\ wire["A"].data.msg.payload = MySelection

(***************************************************************************)
(* PUNCH datagrams at the receive loop (two nodes).                        *)
(***************************************************************************)
\* the receive loop of the g-th transport of n takes the PUNCH datagram d
PunchArrives(n, g, d) ==
    /\ d \in net
    /\ d \notin net'
    /\ d.dst = Addr(n, g)
    /\ startswith_PUNCH(d.data)

\* C21: a datagram that begins with PUNCH is echoed to its sender and is
\* not placed on the queue recv() and hole_punch drain
C21_PunchSwallowed ==
    [][\A n \in Nodes, g \in Gens : \A d \in net :
          PunchArrives(n, g, d) =>
             /\ Datagram(d.dst, d.src, Replied(d.data)) \in net'
             /\ transports'[n][g]._pending_receives = transports[n][g]._pending_receives]_vars

\* C22: an echoed PUNCH is consumed and not echoed again: no PUNCH in
\* flight is the echo of an echo, so the probe payload passes each receive
\* loop once per probe
C22_EchoConsumed ==
    \A d \in net : startswith_PUNCH(d.data) => d.data.hops < 2

(***************************************************************************)
(* hole_punch: node A is given a token of the peer that names no LAN       *)
(* address, the external address again, or a LAN address; while it probes, *)
(* echoes and HELLOs arrive from the peer's external address, from its LAN *)
(* address and from a stranger.                                            *)
(***************************************************************************)
PunchTokenStrs ==
    {encode(PartyToken(SidOf("B"), RemoteAddr, internal[1], internal[2], RemoteKey,
                       now - TOKEN_EXPIRY_SECONDS)) :
        internal \in {<<NoIp, RemoteAddr[2]>>, RemoteAddr, LanAddr}}

PasteEndpoint ==
    /\ ~Urgent
    /\ party_state["A"].enabled
    /\ \E token_str \in PunchTokenStrs : AddPeer("A", token_str)
    /\ manager'["A"].conns_made <= 1

\* a datagram reaches A's socket while hole_punch runs and fewer than two
\* are queued
PunchTraffic ==
    /\ ~Urgent
    /\ net = {}
    /\ Listening("A")
    /\ calls["A"].add_peer.pc = "punch"
    /\ Len(transports["A"][TransportOf("A")]._pending_receives) < 2
    /\ \E src \in {RemoteAddr, LanAddr, ThirdAddr} :
       \E data \in RemotePunch \cup
                    {encrypt(RemoteCrypto(RemoteKey), create_hello(SidOf("B"), NameOf("B")))} :
          net' = {Datagram(src, Addr("A", TransportOf("A")), data)}
    /\ UNCHANGED <<now, has_cryptography, codec, lcu, party_state, manager, transports,
                   conns, calls, ui, wire>>

Punching == ~Urgent /\ HolePunch("A")

NextPunch == Start \/ Discovered \/ PasteEndpoint \/ PunchTraffic \/ Receive \/ Punching

SpecPunch == InitKeepalive /\ [][NextPunch]_vars

\* the candidates the claim names: the external address, then the internal
\* one when it is set and differs from the external IP
Candidates(token) ==
    IF token.internal_ip \notin {NoIp, token.external_ip}
    THEN << <<token.external_ip, token.external_port>>,
            <<token.internal_ip, token.internal_port>> >>
    ELSE << <<token.external_ip, token.external_port>> >>

\* the datagram hole_punch takes off the queue in this step is a reply
PunchMatch(call, queue) ==
    /\ queue # <<>>
    /\ \/ Head(queue).addr[1] = Candidates(call.token)[call.addr][1]
       \/ Head(queue).addr[1] = call.token.external_ip

\* hole_punch is at attempt' of candidate addr', later than before
PunchAdvances(call) ==
    LET after == calls'["A"].add_peer
    IN  /\ after.pc = "punch"
        /\ \/ after.addr = call.addr /\ after.attempt = call.attempt + 1
           \/ after.addr = call.addr + 1 /\ after.attempt = 0

\* C23: hole_punch probes each candidate at most the allowed number of
\* times, in the order external then internal; a step of it returns the
\* source of the datagram it dequeued when that is a reply, moves on to the
\* next attempt when it is not, and returns None after the last attempt at
\* the last candidate
C23_HolePunch ==
    /\ [](calls["A"].add_peer.pc = "punch" =>
            /\ get_addresses(calls["A"].add_peer.token) = Candidates(calls["A"].add_peer.token)
            /\ calls["A"].add_peer.addr \in 1 .. Len(Candidates(calls["A"].add_peer.token))
            /\ calls["A"].add_peer.attempt \in 0 .. MaxAttempts - 1)
    /\ [][Punching =>
            LET call == calls["A"].add_peer
                queue == transports["A"][conns["A"][call.conn].transport]._pending_receives
                after == calls'["A"].add_peer
            IN  IF PunchMatch(call, queue)
                THEN /\ after.pc = "handshake"
                     /\ conns'["A"][call.conn]._remote_addr = Head(queue).addr
                ELSE IF /\ call.attempt = MaxAttempts - 1
                        /\ call.addr = Len(Candidates(call.token))
                THEN /\ after.pc = "idle"
                     /\ after.result = "False"
                     /\ conns'["A"][call.conn]._remote_addr = NoAddr
                ELSE /\ PunchAdvances(call)
                     /\ wire' = wire]_vars

\* hole_punch went on to the LAN address after the attempts at the external
\* one, and returned the source of the reply that came from there
C23_Witness ==
    LET call == calls["A"].add_peer
    IN  /\ call.pc = "handshake"
        /\ call.addr = 2
        /\ conns["A"][call.conn]._remote_addr = LanAddr

(***************************************************************************)
(* The cipher between the two nodes.                                       *)
(***************************************************************************)
\* the PartyCrypto objects the two nodes hold for each other
CryptoPairs ==
    {pair \in {<<conns["A"][c]._crypto, conns["B"][c2]._crypto>> : c, c2 \in ConnIds} :
        pair[1] # NoCrypto /\ pair[2] # NoCrypto}

Messages ==
    {create_hello(SidOf("A"), NameOf("A")), create_ping(1),
     create_skin_update(SkinSelection(SidOf("A"), NameOf("A"), ChampionOf("A"), SkinOf("A"), 0))}

\* C24: two peers that hold the same derived shared key read each other's
\* datagrams, whichever cipher library either process imported
C24_OneWireFormat ==
    \A pair \in CryptoPairs :
       CryptoKey(pair[1]) = CryptoKey(pair[2]) =>
          \A m \in Messages :
             /\ decrypt_ok(pair[2], encrypt(pair[1], m)) /\ encrypt(pair[1], m).msg = m
             /\ decrypt_ok(pair[1], encrypt(pair[2], m)) /\ encrypt(pair[2], m).msg = m

(***************************************************************************)
(* protocol/crypto.py, byte by byte.  A datagram of the fallback cipher is *)
(* the byte string encrypt returns.  A datagram of AESGCM is its nonce     *)
(* and one sealed box: the library's decrypt returns the plaintext exactly *)
(* when key, nonce and every bit of ciphertext and tag are those of the    *)
(* encrypt call, and raises InvalidTag otherwise.                          *)
(***************************************************************************)
\* what a call gives back: the bytes it returns, or the ValueError it raises
Returns(bytes) == [raised |-> FALSE, bytes |-> bytes]
ValueError == [raised |-> TRUE, bytes |-> <<>>]

NONCE_SIZE == 12
TAG_SIZE == 16

Bytes == 0 .. 255

\* a ^ b of two bytes, tabulated once
XorTable == [a \in Bytes |-> [b \in Bytes |-> Xor8(a, b)]]

Slice(data, first, last) == [i \in 1 .. (last - first + 1) |-> data[first + i - 1]]

\* PartyCrypto._xor_cipher
_xor_cipher(key, data, nonce) ==
    LET key_stream == key \o nonce
    IN  [i \in 1 .. Len(data) |->
           XorTable[data[i]][key_stream[((i - 1) % (KEY_SIZE + NONCE_SIZE)) + 1]]]

\* a 32-bit word is its four bytes, most significant first (struct ">I")
Word0 == <<0, 0, 0, 0>>
XorWord(u, v) == [k \in 1 .. 4 |-> XorTable[u[k]][v[k]]]

\* ((checksum << 1) | (checksum >> 31)) & 0xFFFFFFFF
Rotl1(u) == [k \in 1 .. 4 |-> ((u[k] * 2) % 256) + (u[IF k = 4 THEN 1 ELSE k + 1] \div 128)]

\* the loop body of _simple_checksum for the byte at 0-based index i
ChecksumStep(key, checksum, i, byte) ==
    Rotl1([checksum EXCEPT ![4] = XorTable[@][XorTable[byte][key[(i % KEY_SIZE) + 1]]]])

\* the loop of _simple_checksum over the 0-based indexes lo .. hi - 1; the
\* word so far is computed before the rest of the loop is entered
RECURSIVE ChecksumOver(_, _, _, _, _)
ChecksumOver(key, data, lo, hi, checksum) ==
    IF Len(checksum) # 4 \/ lo >= hi THEN checksum
    ELSE IF hi = lo + 1 THEN ChecksumStep(key, checksum, lo, data[lo + 1])
    ELSE LET mid == (lo + hi) \div 2
         IN  ChecksumOver(key, data, mid, hi, ChecksumOver(key, data, lo, mid, checksum))

\* PartyCrypto._simple_checksum
_simple_checksum(key, data) ==
    LET checksum == ChecksumOver(key, data, 0, Len(data), Word0)
    IN  checksum \o XorWord(checksum, <<222, 173, 190, 239>>)
                 \o XorWord(checksum, <<202, 254, 186, 190>>)
                 \o XorWord(checksum, <<18, 52, 86, 120>>)

\* AESGCM(key).encrypt(nonce, plaintext, None)
Sealed(key, nonce, plaintext) ==
    [key |-> key, nonce |-> nonce, plaintext |-> plaintext, flipped |-> {}]

NoBox == Sealed(<<>>, <<>>, <<>>)

\* len(data) of a datagram
DataLen(data) ==
    Len(data.bytes) + (IF data.box = NoBox THEN 0 ELSE Len(data.box.plaintext) + TAG_SIZE)

\* PartyCrypto.encrypt with the nonce os.urandom returned
PartyCrypto_encrypt(key, has_lib, nonce, plaintext) ==
    IF has_lib THEN [bytes |-> nonce, box |-> Sealed(key, nonce, plaintext)]
    ELSE [bytes |-> nonce \o _xor_cipher(key, plaintext, nonce)
                         \o _simple_checksum(key, plaintext),
          box |-> NoBox]

\* PartyCrypto.decrypt; the bytes AESGCM made never carry the fallback's
\* checksum and the fallback's bytes never carry a GCM tag
PartyCrypto_decrypt(key, has_lib, data) ==
    IF DataLen(data) < NONCE_SIZE + TAG_SIZE THEN ValueError
    ELSE LET nonce == Slice(data.bytes, 1, NONCE_SIZE)
             ciphertext == Slice(data.bytes, NONCE_SIZE + 1, Len(data.bytes))
         IN  IF has_lib
             THEN IF /\ data.box # NoBox /\ data.box.key = key
                     /\ data.box.nonce = nonce /\ data.box.flipped = {}
                  THEN Returns(data.box.plaintext) ELSE ValueError
             ELSE IF data.box # NoBox THEN ValueError
             ELSE LET actual_ciphertext == Slice(ciphertext, 1, Len(ciphertext) - TAG_SIZE)
                      stored_checksum ==
                          Slice(ciphertext, Len(ciphertext) - TAG_SIZE + 1, Len(ciphertext))
                      plaintext == _xor_cipher(key, actual_ciphertext, nonce)
                  IN  IF stored_checksum # _simple_checksum(key, plaintext)
                      THEN ValueError ELSE Returns(plaintext)

(***************************************************************************)
(* One end of a connection encrypts, one bit of the datagram is flipped on *)
(* the way or none, the other end decrypts.  Each end derived its key from *)
(* its own half and the half in the other's token.                         *)
(***************************************************************************)
ShortPlain == 64
LongPlain == 700

\* byte strings the length of a PING and of a SKIN_SYNC of a full lobby
PlainBytes(length, seed) == [i \in 1 .. length |-> 32 + ((i * 7 + seed * 13 + length) % 95)]

\* what os.urandom(NONCE_SIZE) returns
NonceBytes(seed) == [i \in 1 .. NONCE_SIZE |-> (seed * 53 + i * 17) % 256]

Seeds == {1, 2}

\* bit is the 0-based index of the bit in the datagram, 8 * byte + bit in byte
FlipBit(data, bit) ==
    LET at == (bit \div 8) + 1
    IN  IF at > Len(data.bytes)
        THEN [data EXCEPT !.box.flipped = @ \cup {bit}]
        ELSE [data EXCEPT !.bytes[at] = XorTable[@][2 ^ (bit % 8)]]

\* the bits looked at: all of the nonce, of the first, of the first
\* nonce-keyed and of the last byte of the ciphertext, and all of the tag
FlipBits(length) ==
    {bit \in 0 .. (8 * (NONCE_SIZE + length + TAG_SIZE) - 1) :
        LET byte == bit \div 8
        IN  \/ byte < NONCE_SIZE
            \/ byte \in {NONCE_SIZE, NONCE_SIZE + KEY_SIZE, NONCE_SIZE + length - 1}
            \/ byte >= NONCE_SIZE + length}

InitCipher ==
    /\ now = StartTime
    /\ net = {}
    /\ has_cryptography = [n \in Nodes |-> TRUE]
    /\ lcu = [n \in Nodes |-> NotPicked(n)]
    /\ party_state = [n \in Nodes |-> NoPartyState]
    /\ manager = [n \in Nodes |-> NoManager]
    /\ transports = [n \in Nodes |-> [g \in Gens |-> NoTransport]]
    /\ conns = [n \in Nodes |-> [c \in ConnIds |-> NoConn]]
    /\ calls = [n \in Nodes |-> NoCalls]
    /\ ui = [n \in Nodes |-> to_dict(party_state[n])]
    /\ wire = [n \in Nodes |-> NoWire]
    /\ \E has_lib \in BOOLEAN, length \in {ShortPlain, LongPlain}, n \in Nodes :
          codec = [op |-> "plain", mine |-> KeyOf(n, 1), peer |-> KeyOf(Other(n), 1),
                   has_lib |-> has_lib, plaintext |-> PlainBytes(length, 1),
                   data |-> [bytes |-> <<>>, box |-> NoBox], flipped |-> -1, out |-> ValueError]

Quiet == UNCHANGED <<now, net, has_cryptography, lcu, party_state, manager, transports,
                     conns, calls, ui, wire>>

Encrypt ==
    /\ codec.op = "plain"
    /\ \E seed \in Seeds :
          codec' = [codec EXCEPT
                      !.op = "sent",
                      !.data = PartyCrypto_encrypt(SharedKeyTable[codec.mine][codec.peer],
                                                   codec.has_lib, NonceBytes(seed),
                                                   codec.plaintext)]
    /\ Quiet

\* one bit changes on the way
Tamper ==
    /\ codec.op = "sent"
    /\ codec.flipped = -1
    /\ \E bit \in FlipBits(Len(codec.plaintext)) :
          codec' = [codec EXCEPT !.data = FlipBit(@, bit), !.flipped = bit]
    /\ Quiet

Decrypt ==
    /\ codec.op = "sent"
    /\ codec' = [codec EXCEPT
                   !.op = "received",
                   !.out = PartyCrypto_decrypt(SharedKeyTable[codec.peer][codec.mine],
                                               codec.has_lib, codec.data)]
    /\ Quiet

NextCipher == Encrypt \/ Tamper \/ Decrypt

SpecCipher == InitCipher /\ [][NextCipher]_vars

\* C25: decrypt fails on a datagram of encrypt in which one bit of the nonce,
\* of the ciphertext or of the tag was flipped
C25_BitFlipDetected ==
    (codec.op = "received" /\ codec.flipped # -1) => codec.out = ValueError

\* C26: derive_shared_key(a, b) = derive_shared_key(b, a) for the keys
\* os.urandom hands out, so what one end of a connection encrypts the other
\* end decrypts
C26_DeriveCommutes ==
    /\ \A a, b \in KeyIds : SharedKeyTable[a][b] = SharedKeyTable[b][a]
    /\ (codec.op = "received" /\ codec.flipped = -1) => codec.out = Returns(codec.plaintext)

\* an untouched datagram of one end was decrypted by the other end
C26_Witness ==
    /\ codec.op = "received" /\ codec.flipped = -1
    /\ codec.mine = KeyOf("B", 1) /\ codec.peer = KeyOf("A", 1)
    /\ codec.out = Returns(PlainBytes(LongPlain, 1))

(***************************************************************************)
(* protocol/token_codec.py, byte by byte.  An IPv4 string is its four      *)
(* dot-separated parts, each the sequence of its decimal digits.  What     *)
(* zlib and base64 do to the packed bytes is carried as the bytes they     *)
(* were applied to and the number of characters that results.              *)
(***************************************************************************)
\* str(b) of a byte
Str(b) ==
    IF b < 10 THEN <<b>>
    ELSE IF b < 100 THEN <<b \div 10, b % 10>>
    ELSE <<b \div 100, (b \div 10) % 10, b % 10>>

\* int(p) of a string of decimal digits
RECURSIVE ParseInt(_)
ParseInt(p) == IF Len(p) = 0 THEN 0 ELSE 10 * ParseInt(Slice(p, 1, Len(p) - 1)) + p[Len(p)]

\* socket.inet_ntoa and getsockname: the dotted quad of four bytes
inet_ntoa(quad) == [k \in 1 .. 4 |-> Str(quad[k])]

\* PartyToken._ip_to_bytes
_ip_to_bytes(ip) ==
    IF Len(ip) # 4 \/ \E k \in 1 .. Len(ip) : Len(ip[k]) = 0 \/ ParseInt(ip[k]) > 255
    THEN ValueError
    ELSE Returns([k \in 1 .. 4 |-> ParseInt(ip[k])])

\* joining the bytes in the order they arrive, last first
_bytes_to_ip_reversed(data) == [k \in 1 .. 4 |-> Str(data[5 - k])]

\* PartyToken._bytes_to_ip
_bytes_to_ip(data) == [k \in 1 .. 4 |-> Str(data[k])]

\* struct.pack of one unsigned big-endian field
RECURSIVE BigEndian(_, _)
BigEndian(value, width) ==
    IF width = 0 THEN <<>> ELSE BigEndian(value \div 256, width - 1) \o <<value % 256>>

\* struct.unpack of one unsigned big-endian field
RECURSIVE FromBigEndian(_)
FromBigEndian(data) ==
    IF Len(data) = 0 THEN 0
    ELSE 256 * FromBigEndian(Slice(data, 1, Len(data) - 1)) + data[Len(data)]

\* the token of the byte-level codec: the IP fields are strings, the key is
\* its 32 bytes
ByteToken(version, timestamp, sid, ext_ip, ext_port, int_ip, int_port, encryption_key) ==
    [version |-> version, timestamp |-> timestamp, summoner_id |-> sid,
     external_ip |-> ext_ip, external_port |-> ext_port,
     internal_ip |-> int_ip, internal_port |-> int_port,
     encryption_key |-> encryption_key]

\* urlsafe_b64encode gives 4 characters for every 3 bytes, the last group
\* padded with "="
B64Padding(length) == (3 - (length % 3)) % 3
B64Chars(length) == 4 * ((length + 2) \div 3)

NoText == [prefix |-> FALSE, chars |-> 0, deflated |-> 0, data |-> <<>>]

\* PartyToken.encode; deflated is the number of bytes zlib.compress returned
PartyToken_encode(token, deflated) ==
    LET ext_ip_bytes == _ip_to_bytes(token.external_ip)
        int_ip_bytes == _ip_to_bytes(token.internal_ip)
    IN  IF ext_ip_bytes.raised \/ int_ip_bytes.raised THEN ValueError
        ELSE LET data == <<token.version>> \o BigEndian(token.timestamp, 4)
                           \o BigEndian(token.summoner_id, 8)
                           \o BigEndian(token.external_port, 2)
                           \o BigEndian(token.internal_port, 2)
                           \o ext_ip_bytes.bytes \o int_ip_bytes.bytes
                           \o token.encryption_key
                 \* encoded.rstrip("=")
                 chars == B64Chars(deflated) - B64Padding(deflated)
             IN  Returns([prefix |-> TRUE, chars |-> chars, deflated |-> deflated,
                          data |-> data])

\* PartyToken.is_expired at the time of the call
ByteToken_is_expired(token, time) == time > token.timestamp + TOKEN_EXPIRY_SECONDS

\* PartyToken.decode at the given time.time()
PartyToken_decode(token_str, time) ==
    LET padding == 4 - (token_str.chars % 4)
        length == IF padding # 4 THEN token_str.chars + padding ELSE token_str.chars
        pad == IF padding # 4 THEN padding ELSE 0
        data == token_str.data
    IN  \* urlsafe_b64decode: binascii.Error on a wrong number of "="
        IF length # B64Chars(token_str.deflated) \/ pad # B64Padding(token_str.deflated)
        THEN ValueError
        ELSE IF Len(data) < TOKEN_BYTES THEN ValueError
        ELSE LET version == data[1]
                 timestamp == FromBigEndian(Slice(data, 2, 5))
                 summoner_id == FromBigEndian(Slice(data, 6, 13))
                 ext_port == FromBigEndian(Slice(data, 14, 15))
                 int_port == FromBigEndian(Slice(data, 16, 17))
             IN  IF version # TOKEN_VERSION THEN ValueError
                 ELSE LET token ==
                              ByteToken(version, timestamp, summoner_id,
                                        _bytes_to_ip(Slice(data, 18, 21)), ext_port,
                                        _bytes_to_ip(Slice(data, 22, 25)), int_port,
                                        Slice(data, 26, 57))
                      IN  IF ByteToken_is_expired(token, time) THEN ValueError
                          ELSE Returns(token)

(***************************************************************************)
(* One token is created as create_token creates it, encoded, and decoded   *)
(* some time later.                                                        *)
(***************************************************************************)
\* int(time.time()) when the token is created
TokenEpoch == 1762300800

\* the fewest bytes zlib.compress returns for the 57 bytes of a token
MinDeflated == 60

\* addresses as STUN and getsockname report them
Quads == {<<203, 0, 113, 7>>, <<192, 168, 1, 20>>, <<0, 0, 0, 0>>, <<10, 0, 0, 255>>}

CreatedTokens ==
    {ByteToken(TOKEN_VERSION, TokenEpoch, SidOf(n), inet_ntoa(ext), PortOf(n, 1),
               inet_ntoa(lan), PortOf(n, 1), KeyBytes(KeyOf(n, 1))) :
        n \in Nodes, ext \in Quads \ {<<0, 0, 0, 0>>}, lan \in Quads}

InitToken ==
    /\ now = StartTime
    /\ net = {}
    /\ has_cryptography = [n \in Nodes |-> TRUE]
    /\ lcu = [n \in Nodes |-> NotPicked(n)]
    /\ party_state = [n \in Nodes |-> NoPartyState]
    /\ manager = [n \in Nodes |-> NoManager]
    /\ transports = [n \in Nodes |-> [g \in Gens |-> NoTransport]]
    /\ conns = [n \in Nodes |-> [c \in ConnIds |-> NoConn]]
    /\ calls = [n \in Nodes |-> NoCalls]
    /\ ui = [n \in Nodes |-> to_dict(party_state[n])]
    /\ wire = [n \in Nodes |-> NoWire]
    /\ \E token \in CreatedTokens :
          codec = [op |-> "token", token |-> token, text |-> NoText, time |-> 0,
                   out |-> [raised |-> TRUE, bytes |-> token]]

EncodeToken ==
    /\ codec.op = "token"
    /\ \E deflated \in MinDeflated .. (MinDeflated + 2) :
          LET encoded == PartyToken_encode(codec.token, deflated)
          IN  /\ ~encoded.raised
              /\ codec' = [codec EXCEPT !.op = "text", !.text = encoded.bytes]
    /\ Quiet

\* the peer pastes the text: at once, after exactly an hour, a second later
DecodeToken ==
    /\ codec.op = "text"
    /\ \E age \in {0, 1, TOKEN_EXPIRY_SECONDS - 1, TOKEN_EXPIRY_SECONDS,
                   TOKEN_EXPIRY_SECONDS + 1, 2 * TOKEN_EXPIRY_SECONDS} :
          LET time == codec.token.timestamp + age
              decoded == PartyToken_decode(codec.text, time)
          IN  codec' = [codec EXCEPT
                          !.op = "decoded", !.time = time,
                          !.out = [raised |-> decoded.raised,
                                   bytes |-> IF decoded.raised THEN codec.token
                                             ELSE decoded.bytes]]
    /\ Quiet

NextToken == EncodeToken \/ DecodeToken

SpecToken == InitToken /\ [][NextToken]_vars

\* C27: decode(encode(token)) is the token, field by field, when the token
\* is at most 3600 seconds old, and decode raises when it is older
C27_TokenRoundTrip ==
    codec.op = "decoded" =>
       IF codec.time - codec.token.timestamp <= TOKEN_EXPIRY_SECONDS
       THEN ~codec.out.raised /\ codec.out.bytes = codec.token
       ELSE codec.out.raised

\* a token with a LAN address was decoded exactly an hour after it was made
C27_Witness ==
    /\ codec.op = "decoded"
    /\ codec.time = codec.token.timestamp + TOKEN_EXPIRY_SECONDS
    /\ codec.token.internal_ip = inet_ntoa(<<192, 168, 1, 20>>)
    /\ codec.out = Returns(codec.token)

(***************************************************************************)
(* Two connection attempts at A at the same time: X is the peer at         *)
(* RemoteAddr, Y a second peer at ThirdAddr.  The add_peer for X runs step *)
(* by step; the add_peer for Y has begun and is suspended in hole_punch    *)
(* (in its sleep between two probes) for as long as the run lasts.         *)
(***************************************************************************)
OtherTokenStr ==
    encode(PartyToken(ThirdSid, ThirdAddr, NoIp, ThirdAddr[2], ForeignKey,
                      now - TOKEN_EXPIRY_SECONDS))

\* the user pastes Y's token while the attempt to X is in progress; the
\* coroutine runs up to its first await
PasteOther ==
    /\ ~Urgent
    /\ calls["A"].add_peer.pc \in {"punch", "handshake"}
    /\ \A c \in ConnIds : conns["A"][c].token.summoner_id # ThirdSid
    /\ manager["A"].conns_made < MaxConns
    /\ Commit(add_peer_begin("A", OtherTokenStr).w)
    /\ UNCHANGED <<now, has_cryptography, codec, lcu, calls>>

\* Y's attempt is in progress
OtherInProgress ==
    \E c \in ConnIds :
       /\ conns["A"][c].token.summoner_id = ThirdSid
       /\ conns["A"][c].state \in {"connecting", "handshaking"}

\* a reply of X or of Y reaches A's socket while fewer than two are queued
AttemptTraffic ==
    /\ ~Urgent
    /\ net = {}
    /\ Listening("A")
    /\ calls["A"].add_peer.pc \in {"punch", "handshake"}
    /\ Len(transports["A"][TransportOf("A")]._pending_receives) < 2
    /\ \E src \in {RemoteAddr, ThirdAddr} :
       \E data \in RemotePunch \cup
                    {encrypt(RemoteCrypto(RemoteKey), create_hello(SidOf("B"), NameOf("B")))} :
          /\ src = ThirdAddr => OtherInProgress /\ data \in RemotePunch
          /\ net' = {Datagram(src, Addr("A", TransportOf("A")), data)}
    /\ UNCHANGED <<now, has_cryptography, codec, lcu, party_state, manager, transports,
                   conns, calls, ui, wire>>

Shaking == ~Urgent /\ Handshake("A")

NextAttempts ==
    Start \/ Discovered \/ PasteEndpoint \/ PasteOther \/ AttemptTraffic \/ Receive
       \/ Punching \/ Shaking

SpecAttempts == InitKeepalive /\ [][NextAttempts]_vars

\* the queued datagrams that came from Y's address
FromOther(queue) == SelectSeq(queue, LAMBDA item : item.addr = ThirdAddr)

\* C28: while the attempts to X and to Y are both in progress, no step of
\* X's attempt takes a datagram of Y's address off the queue without putting
\* it back
C28_OtherPeersDatagramKept ==
    [][(OtherInProgress /\ (Punching \/ Shaking)) =>
          Len(FromOther(transports'["A"][TransportOf("A")]._pending_receives))
             >= Len(FromOther(transports["A"][TransportOf("A")]._pending_receives))]_vars

(***************************************************************************)
(* The states a PeerConnection goes through.                               *)
(***************************************************************************)
StateEdges ==
    {<<"disconnected", "connecting">>, <<"connecting", "handshaking">>,
     <<"handshaking", "connected">>, <<"connected", "dead">>}
       \cup {<<s, "disconnected">> : s \in {"connecting", "handshaking", "connected", "dead"}}

\* _handshake is about to return True: the datagram it takes next is a HELLO
\* or a HELLO_ACK of the peer
HandshakeCompletes(n, c) ==
    LET cn == conns[n][c]
        queue == transports[n][cn.transport]._pending_receives
    IN  /\ calls[n].add_peer.pc = "handshake"
        /\ calls[n].add_peer.conn = c
        /\ queue # <<>>
        /\ Head(queue).addr = cn._remote_addr
        /\ decrypt_ok(cn._crypto, Head(queue).data)
        /\ from_bytes_ok(Head(queue).data)
        /\ Head(queue).data.msg.type \in {"hello", "hello_ack"}

\* C29: the state of a connection changes only along Disconnected ->
\* Connecting -> Handshaking -> Connected -> Dead and from any state to
\* Disconnected; Connected is entered only by a handshake that completed
C29_StateEdges ==
    [][\A n \in Nodes, c \in ConnIds :
          conns'[n][c].state # conns[n][c].state =>
             /\ <<conns[n][c].state, conns'[n][c].state>> \in StateEdges
             /\ conns'[n][c].state = "connected" => HandshakeCompletes(n, c)]_vars

\* a connection that went all the way is declared dead
C29_Witness ==
    \E c \in ConnIds :
       /\ conns["A"][c].state = "dead"
       /\ conns["A"][c].connected_at > 0
       /\ conns["A"][c]._crypto # NoCrypto

(***************************************************************************)
(* What is left of a connection that has ended.                            *)
(***************************************************************************)
\* the connection was Connected once and no longer is
Ended(cn) == cn.connected_at > 0 /\ cn.state \in {"disconnected", "dead"}

\* C30: once a connection has ended, by disconnect, by disable() or by its
\* keep-alive declaring the peer dead, the transport no longer holds its
\* handler and its keep-alive task no longer runs
C30_EndedLeavesNothing ==
    \A n \in Nodes, c \in ConnIds :
       Ended(conns[n][c]) =>
          /\ transports[n][conns[n][c].transport]._handlers[conns[n][c]._remote_addr] # c
          /\ conns[n][c]._keepalive_task \notin {"running", "cancelled"}

(***************************************************************************)
(* When connect() registers the handler.                                   *)
(***************************************************************************)
\* C31: from the moment hole punching has succeeded and the handshake
\* begins (the first HELLO is sent), the transport holds the connection's
\* handler for the chosen remote address
C31_HandlerBeforeHandshake ==
    \A n \in Nodes, c \in ConnIds :
       conns[n][c].state = "handshaking" =>
          transports[n][conns[n][c].transport]._handlers[conns[n][c]._remote_addr] = c

(***************************************************************************)
(* What hole_punch does with the datagram it takes off the queue.          *)
(***************************************************************************)
PunchQueue == transports["A"][TransportOf("A")]._pending_receives

\* C32: hole_punch consumes the datagram it dequeues only when it is a
\* PUNCH from a matching source; a datagram from another source and a
\* non-PUNCH datagram from a matching source go back on the queue
C32_PunchKeepsOthers ==
    [][(Punching /\ PunchQueue # <<>>) =>
          LET item == Head(PunchQueue)
              call == calls["A"].add_peer
          IN  PunchQueue' =
                 IF PunchMatch(call, PunchQueue) /\ startswith_PUNCH(item.data)
                 THEN Tail(PunchQueue)
                 ELSE Append(Tail(PunchQueue), item)]_vars

\* hole_punch returned on an early HELLO that it put back behind a datagram
\* of a stranger
C32_Witness ==
    /\ calls["A"].add_peer.pc = "handshake"
    /\ Len(PunchQueue) = 2
    /\ PunchQueue[1].addr = ThirdAddr
    /\ PunchQueue[2].addr = RemoteAddr /\ ~startswith_PUNCH(PunchQueue[2].data)

(***************************************************************************)
(* PartyManager.remove_peer and PartyManager.broadcast_skin_update as the  *)
(* UI bridge calls them.  remove_peer is suspended                         *)
(*   disconnect   at the await of the cancelled keep-alive task            *)
(* and broadcast_skin_update                                               *)
(*   sending      in sock_sendto, inside the loop over self._peers.values()*)
(***************************************************************************)
clear_peer(w, n, sid) == [w EXCEPT !.manager[n]._selections[sid] = NoSelection]

\* remove_peer from the statement after the if
remove_peer_finish(w, n, sid) ==
    Outcome(_notify_state_change(clear_peer(ps_remove_peer(w, n, sid), n, sid), n),
            Return("returned", 303))

\* remove_peer from the end of the await of disconnect(); del raises KeyError
\* when the entry has gone
remove_peer_end(w, n, sid, c) ==
    LET w1 == disconnect_end(w, n, c)
    IN  IF w1.manager[n]._peers[sid] = 0
        THEN Outcome(w1, Return("raised", 298))
        ELSE remove_peer_finish([w1 EXCEPT !.manager[n]._peers[sid] = 0], n, sid)

remove_peer(w, n, sid) ==
    LET c == w.manager[n]._peers[sid]
    IN  IF c = 0 THEN remove_peer_finish(w, n, sid)
        ELSE LET w1 == disconnect_begin(w, n, c)
             IN  IF disconnect_suspends(w1, n, c)
                 THEN Outcome(w1, [NoCall EXCEPT !.pc = "disconnect", !.conn = c,
                                                 !.summoner_id = sid])
                 ELSE remove_peer_end(w1, n, sid, c)

\* the number of entries of the dict self._peers
len_peers(w, n) == Cardinality({s \in Sids : w.manager[n]._peers[s] # 0})

\* the for loop of broadcast_skin_update at the next() of its iterator, which
\* raises RuntimeError when the dict has another size than at iter(); a send
\* that raises is logged and the loop goes on, a send that does not suspends
\* the coroutine in sock_sendto
RECURSIVE broadcast_next(_, _, _)
broadcast_next(w, n, call) ==
    IF len_peers(w, n) # call.used
    THEN Outcome(w, [call EXCEPT !.pc = "idle", !.result = "raised", !.line = 318])
    ELSE IF call.todo = <<>>
    THEN Outcome(w, [call EXCEPT !.pc = "idle", !.result = "returned", !.line = 325])
    ELSE LET c == Head(call.todo)
             rest == [call EXCEPT !.todo = Tail(@)]
         IN  IF w.conns[n][c].state # "connected" THEN broadcast_next(w, n, rest)
             ELSE LET w1 == send_message(w, n, c, create_skin_update(call.selection))
                      sent == [rest EXCEPT !.tried = @ \cup {c}]
                  IN  IF w1.raised
                      THEN broadcast_next([w1 EXCEPT !.raised = FALSE], n, sent)
                      ELSE Outcome(w1, [sent EXCEPT !.pc = "sending"])

\* broadcast_skin_update from its first statement to its first suspension
broadcast_skin_update_call(w, n) ==
    LET selection == get_my_selection(n, w.party_state[n].my_summoner_id,
                                      w.party_state[n].my_summoner_name)
        peers == PeerList(w.manager[n]._peers, Sids)
    IN  IF ~w.party_state[n].enabled THEN Outcome(w, Return("returned", 308))
        ELSE IF selection = NoSelection THEN Outcome(w, Return("returned", 316))
        ELSE broadcast_next(w, n,
                 [NoCall EXCEPT !.selection = selection, !.todo = peers,
                                !.used = Len(peers),
                                !.targets = {c \in ConnIds :
                                               /\ \E i \in 1..Len(peers) : peers[i] = c
                                               /\ w.conns[n][c].state = "connected"}])

RemovePeer ==
    /\ calls["A"].remove_peer.pc = "idle"
    /\ \E sid \in {SidOf("B"), ThirdSid} :
          LET o == remove_peer(World, "A", sid)
          IN  /\ Commit(o.w)
              /\ calls' = [calls EXCEPT !["A"].remove_peer = o.call]
    /\ UNCHANGED <<now, has_cryptography, codec, lcu>>

RemovePeerResume ==
    /\ calls["A"].remove_peer.pc = "disconnect"
    /\ LET call == calls["A"].remove_peer
           o == remove_peer_end(World, "A", call.summoner_id, call.conn)
       IN  /\ Commit(o.w)
           /\ calls' = [calls EXCEPT !["A"].remove_peer = o.call]
    /\ UNCHANGED <<now, has_cryptography, codec, lcu>>

BroadcastSkin ==
    /\ calls["A"].broadcast_skin_update.pc = "idle"
    /\ \A c \in ConnIds : conns["A"][c]._sequence < MaxSeq
    /\ LET o == broadcast_skin_update_call(World, "A")
       IN  /\ Commit(o.w)
           /\ calls' = [calls EXCEPT !["A"].broadcast_skin_update = o.call]
    /\ UNCHANGED <<now, has_cryptography, codec, lcu>>

BroadcastResume ==
    /\ calls["A"].broadcast_skin_update.pc = "sending"
    /\ LET o == broadcast_next(World, "A", calls["A"].broadcast_skin_update)
       IN  /\ Commit(o.w)
           /\ calls' = [calls EXCEPT !["A"].broadcast_skin_update = o.call]
    /\ UNCHANGED <<now, has_cryptography, codec, lcu>>

\* the user picks a skin
FirstHover == lcu["A"].skin_id = 0 /\ Hover

NextBroadcast ==
    FirstHover \/ BroadcastSkin \/ BroadcastResume \/ RemovePeer \/ RemovePeerResume

SpecBroadcast == InitFanout /\ [][NextBroadcast]_vars

\* C33: a broadcast_skin_update during whose suspended send the peer map
\* changed has returned without an error once it is over, and has tried
\* every peer that was Connected when it began and still is.
C33_BroadcastSurvivesChange ==
    LET call == calls["A"].broadcast_skin_update
    IN  (call.pc = "idle" /\ call.result # None /\ call.targets # {}) =>
           /\ call.result = "returned"
           /\ \A c \in call.targets :
                 conns["A"][c].state = "connected" => c \in call.tried

\* C34: when disable() has run while add_peer was suspended in hole punching
\* or in the handshake, then at the step that ends the later of the two
\* calls the peer map is empty and no connection is Connected or has a
\* running keep-alive task.
C34_DisableDuringAddPeer ==
    [][(/\ calls["A"].add_peer.pc # "idle" \/ calls["A"].disable.pc # "idle"
        /\ calls'["A"].disable.interrupts
        /\ calls'["A"].add_peer.pc = "idle" /\ calls'["A"].disable.pc = "idle"
        /\ calls'["A"].disable.result = "returned")
       => /\ \A s \in Sids : manager'["A"]._peers[s] = 0
          /\ \A c \in ConnIds :
                /\ conns'["A"][c].state # "connected"
                /\ conns'["A"][c]._keepalive_task # "running"]_vars

\* the add_peer calls of the two nodes overlapped in time, or that of the
\* other node is still in progress
Overlapped(n) ==
    \/ calls[n].add_peer.concurrent
    \/ calls[Other(n)].add_peer.concurrent
    \/ calls[Other(n)].add_peer.pc # "idle"

\* C35: when the attempt of one node reaches Connected, the other node had a
\* connection to it in state Handshaking or Connected at some moment of the
\* attempt: its own attempt overlapped this one, or its connection is
\* Handshaking or Connected now.  A HELLO left in the queue by an attempt
\* that had failed before this one began does not complete the handshake.
C35_NoStaleHandshake ==
    [][\A n \in Nodes :
          (\E c \in ConnIds : /\ conns[n][c].state = "handshaking"
                              /\ conns'[n][c].state = "connected")
          => \/ Overlapped(n)
             \/ \E d \in ConnIds : conns[Other(n)][d].state \in {"handshaking", "connected"}]_vars

\* C36: every non-local entry of get_party_skins carries the summoner_id of
\* a peer in the map whose connection is Connected and is the selection that
\* connection received last; a selection is cached only under the summoner_id
\* of a peer a connection was made for.
C36_EntriesOfConnectedPeers ==
    /\ \A e \in get_party_skins("A") :
          ~e.is_local =>
             \E s \in Sids :
                LET c == manager["A"]._peers[s]
                IN  /\ c # 0
                    /\ conns["A"][c].state = "connected"
                    /\ e.summoner_id = s
                    /\ e = PartySkinData(conns["A"][c].skin_selection, FALSE)
    /\ \A s \in Sids :
          manager["A"]._selections[s] # NoSelection =>
             \E c \in ConnIds : conns["A"][c].exists /\ SidOfConn("A", c) = s

(***************************************************************************)
(* A connected peer that picks skins and takes its pick back.              *)
(***************************************************************************)
\* SKIN_CLEAR
create_skin_clear(summoner_id, champion_id) ==
    Message("skin_clear", SkinSelection(summoner_id, None, champion_id, 0, 0))

RemoteClear ==
    {encrypt(RemoteCrypto(RemoteKey), create_skin_clear(SidOf("B"), ChampionOf("B")))}

Clearing == RemoteSends(RemoteSkins \cup RemoteClear)

NextClear ==
    \/ Start \/ Discovered \/ Join \/ Connect \/ HelloAck \/ Receive
    \/ Clearing \/ Keepalive \/ Idle

SpecClear == InitKeepalive /\ [][NextClear]_vars

\* C37: once a Connected connection was handed a SKIN_CLEAR, get_party_skins
\* has no entry for its peer and the party state holds no selection for it
C37_ClearRemovesSelection ==
    [][\A c \in ConnIds : \A d \in net :
          (Hears(c, d, "skin_clear") /\ conns["A"][c].state = "connected") =>
             /\ EntriesFrom("A", c)' = {}
             /\ \A e \in get_party_skins("A")' :
                   e.is_local \/ e.summoner_id # SidOfConn("A", c)
             /\ party_state'["A"].peers[SidOfConn("A", c)].skin_selection = NoSelection]_vars

(***************************************************************************)
(* enable() called again while the first call is suspended in discover():  *)
(* party_state.enabled is still False, so the second call runs the same    *)
(* code on the same manager.                                               *)
(***************************************************************************)
EnableAgain(n, bind_result) ==
    /\ calls[n].enable.pc = "stun"
    /\ calls[n].enable_again.pc = "idle"
    /\ calls[n].enable_again.result = None
    /\ LET o == enable_begin(n, bind_result)
       IN  /\ ~o.call.blocked
           /\ Commit(o.w)
           /\ calls' = [calls EXCEPT ![n].enable_again = o.call]
    /\ UNCHANGED <<now, has_cryptography, codec, lcu>>

EnableAgainStun(n, stun_ok) ==
    /\ calls[n].enable_again.pc = "stun"
    /\ LET o == enable_resume(World, n, calls[n].enable_again, stun_ok)
       IN  /\ Commit(o.w)
           /\ calls' = [calls EXCEPT ![n].enable_again = o.call]
    /\ UNCHANGED <<now, has_cryptography, codec, lcu>>

\* the disable() of a second call that failed resumes
EnableAgainOff(n) ==
    /\ calls[n].enable_again.pc \in DisablePcs
    /\ LET o == disable_resume(World, n, "enable", calls[n].enable_again)
       IN  /\ Commit(o.w)
           /\ calls' = [calls EXCEPT ![n].enable_again = o.call]
    /\ UNCHANGED <<now, has_cryptography, codec, lcu>>

TurnOnAgain == \E bind_result \in BindResults : EnableAgain("A", bind_result)

StunAgain == \E stun_ok \in BOOLEAN : EnableAgainStun("A", stun_ok)

OffAgain == EnableAgainOff("A")

\* no enable() is in progress
BothEnded == calls["A"].enable.pc = "idle" /\ calls["A"].enable_again.pc = "idle"

NextEnable ==
    \/ TurnOn \/ TurnOnAgain \/ Stun \/ StunAgain \/ TurnOff \/ Off \/ OffAgain

SpecEnable == InitNode /\ [][NextEnable]_vars

Sockets == {g \in Gens : transports["A"][g]._socket}

ReceiveLoops == {g \in Gens : pending(transports["A"][g]._receive_task)}

\* C38: when a second enable() was called while the first was suspended and
\* both have returned a token, the manager has one bound socket, one receive
\* loop and one pair of loop tasks; after a later disable() none of them is
\* left.
C38_OneOfEach ==
    (/\ BothEnded
     /\ calls["A"].enable.result = "token"
     /\ calls["A"].enable_again.result = "token"
     /\ calls["A"].disable.pc = "idle")
    => IF party_state["A"].enabled
       THEN /\ Cardinality(Sockets) = 1
            /\ Cardinality(ReceiveLoops) = 1
            /\ pending(manager["A"]._lobby_check_task)
            /\ pending(manager["A"]._skin_broadcast_task)
            /\ manager["A"].orphaned = 0
       ELSE /\ Sockets = {}
            /\ ReceiveLoops = {}
            /\ ~pending(manager["A"]._lobby_check_task)
            /\ ~pending(manager["A"]._skin_broadcast_task)

\* no call of enable, disable, add_peer, remove_peer or broadcast_skin_update
\* is in progress on A
Quiescent == \A k \in DOMAIN calls["A"] : calls["A"][k].pc = "idle"

\* C39: whenever no manager operation is in progress, the party state
\* reports a summoner as connected exactly when the peer map holds a
\* connection for it whose state is Connected
C39_ConnectedAgrees ==
    Quiescent =>
       \A s \in Sids :
          (party_state["A"].peers[s].present /\ party_state["A"].peers[s].connected)
          <=> (manager["A"]._peers[s] # 0
               /\ conns["A"][manager["A"]._peers[s]].state = "connected")

(***************************************************************************)
(* add_peer called twice with the same token, the second call while the    *)
(* first is suspended.  calls[n].add_peer is the coroutine the event loop  *)
(* resumes next, calls[n].add_peer_other the one that waits meanwhile.     *)
(***************************************************************************)
\* the second call runs to its first suspension; the first one waits
AddPeerAgain(n, token_str) ==
    /\ calls[n].add_peer.pc \in {"punch", "handshake"}
    /\ calls[n].add_peer_other = NoCall
    /\ LET o == add_peer_begin(n, token_str)
       IN  /\ ~o.call.blocked
           /\ Commit(o.w)
           /\ calls' = [calls EXCEPT ![n].add_peer = [o.call EXCEPT !.began = now],
                                     ![n].add_peer_other = calls[n].add_peer]
    /\ UNCHANGED <<now, has_cryptography, codec, lcu>>

\* the event loop turns to the other of the two coroutines
Switch(n) ==
    /\ calls[n].add_peer_other.pc # "idle"
    /\ calls' = [calls EXCEPT ![n].add_peer = calls[n].add_peer_other,
                              ![n].add_peer_other = calls[n].add_peer]
    /\ UNCHANGED <<now, net, has_cryptography, codec, lcu, party_state, manager,
                   transports, conns, ui, wire>>

JoinAgain == ~Urgent /\ AddPeerAgain("A", GoodTokenStr)

Turn == Switch("A")

NextTwice ==
    \/ Start \/ Discovered \/ Join \/ JoinAgain \/ Turn \/ Connecting
    \/ HelloAck \/ Receive \/ Sleeping

SpecTwice == InitKeepalive /\ [][NextTwice]_vars

\* the connections made for summoner sid that still act: their keep-alive
\* task runs or the transport hands them datagrams
Acting(sid) ==
    {c \in ConnIds :
        /\ conns["A"][c].exists
        /\ SidOfConn("A", c) = sid
        /\ \/ conns["A"][c]._keepalive_task = "running"
           \/ \E g \in Gens, a \in AllAddrs : transports["A"][g]._handlers[a] = c}

\* C40: when two add_peer calls with the same token overlapped and both have
\* returned, at most one connection for that summoner has a running
\* keep-alive task or a registered handler, it is the one in the peer map,
\* and the party state has an entry for the peer whenever the map has one
C40_OneConnectionPerPeer ==
    LET first == calls["A"].add_peer
        second == calls["A"].add_peer_other
        sid == SidOf("B")
    IN  (/\ first.pc = "idle" /\ first.result # None
         /\ second.pc = "idle" /\ second.result # None)
        => /\ Cardinality(Acting(sid)) <= 1
           /\ \A c \in Acting(sid) : manager["A"]._peers[sid] = c
           /\ manager["A"]._peers[sid] # 0 => party_state["A"].peers[sid].present

====
